---- MODULE Spec2Model ----
(***************************************************************************)
(* A model of the coTherapist conversation-turn pipeline:                  *)
(*   safety/safety_filter.py   SafetyFilter (input gate, output gate,      *)
(*                             disclaimer prefix)                          *)
(*   agentic/reasoning_agent.py ReasoningAgent.reason (reasoning trace)    *)
(*   pipeline.py               CoTherapistPipeline.generate_response       *)
(*                                                                         *)
(* Text is a sequence of whitespace-separated tokens (words keep their     *)
(* punctuation and their case).  Python's str.lower(), the substring test  *)
(* `a in b`, str.startswith and the \b...\s+...\b regular expressions are  *)
(* modelled on that representation.  Scores are hundredths (0.7 -> 70).    *)
(***************************************************************************)
EXTENDS Integers, Sequences, FiniteSets, TLC

VARIABLES
    config,           \* the configuration dictionary the components read
    toxicity_model,   \* SafetyFilter.toxicity_model is loaded (not None)
    is_model_loaded,  \* CoTherapistPipeline.is_model_loaded
    pc,               \* position of generate_response in the current turn
    turn,             \* the locals of generate_response
    result,           \* what the last call returned (or that it raised)
    calls,            \* the stage calls made so far in the current turn
    gop,              \* SafetyFilter harness: the method applied last
    gtext,            \* SafetyFilter harness: the text it was applied to
    gtox,             \* SafetyFilter harness: what the toxicity provider did
    gres,             \* SafetyFilter harness: what the method returned
    gcount,           \* SafetyFilter harness: successive add_safety_prefix calls
    rs,               \* ReasoningAgent.reason: its position and locals
    ds,               \* CoTherapistPipeline.evaluate_dataset: position and locals
    ev,               \* evaluator / analyzer harness: arguments and return value
    kb                \* RAGSystem: its fields and the persisted artifacts

pipeVars == <<is_model_loaded, pc, turn, result, calls>>
gateVars == <<gop, gtext, gtox, gres, gcount>>
vars == <<config, toxicity_model, is_model_loaded, pc, turn, result, calls,
          gop, gtext, gtox, gres, gcount, rs, ds, ev, kb>>

(***************************************************************************)
(* Bounds.                                                                 *)
(***************************************************************************)
\* texts are concatenations of at most MaxFrags fragments
MaxFrags == 2
\* successive applications of add_safety_prefix to one response
MaxApply == 2

\* Python's None where a string is expected, and where a text is expected
None == "None"
NoText == <<"<None>">>

(***************************************************************************)
(* Python dictionaries: functions whose domain is the set of keys present. *)
(***************************************************************************)
EmptyDict == [k \in {} |-> TRUE]

Put(d, k, v) == [x \in (DOMAIN d) \cup {k} |-> IF x = k THEN v ELSE d[x]]

\* {**a, **b}
Merge(a, b) == [x \in (DOMAIN a) \cup (DOMAIN b) |->
                   IF x \in DOMAIN b THEN b[x] ELSE a[x]]

\* d.get(k, default)
Get(d, k, default) == IF k \in DOMAIN d THEN d[k] ELSE default

(***************************************************************************)
(* Text.                                                                   *)
(***************************************************************************)
\* str.lower() on one token: the tokens of the model that hold capitals
LowerPairs ==
    { <<"KILL", "kill">>, <<"Suicidal", "suicidal">>, <<"You", "you">>,
      <<"MUST", "must">>, <<"I", "i">>, <<"Please", "please">>,
      <<"I'm", "i'm">>, <<"AI", "ai">>, <<"How", "how">>, <<"Let's", "let's">>,
      <<"Consider", "consider">>, <<"Looks", "looks">>, <<"Call", "call">>,
      <<"Hopeless", "hopeless">>, <<"NEEDS", "needs">>, <<"It", "it">>,
      <<"The", "the">>, <<"Unable", "unable">>, <<"Response", "response">>,
      <<"Just", "just">>, <<"Stop", "stop">> }

LowerWord(w) ==
    IF \E p \in LowerPairs : p[1] = w
    THEN (CHOOSE p \in LowerPairs : p[1] = w)[2]
    ELSE w

\* str.lower()
Lower(t) == [i \in DOMAIN t |-> LowerWord(t[i])]

\* <<sub, word>>: sub is a proper prefix / a proper suffix of the token word
ProperPrefix ==
    { <<"apologize", "apologize,">>, <<"be", "better">>,
      <<"consider", "considerate">>, <<"diagnose", "diagnosed">>,
      <<"feel", "feeling">>, <<"feel", "feels">>, <<"help", "helps">>,
      <<"it", "it.">>, <<"not", "note:">>, <<"should", "shoulder">>,
      <<"therapist", "therapist.">>, <<"to", "together">>,
      <<"to", "toxicity_score">>, <<"understand", "understand,">>,
      <<"warm", "warmth">>, <<"way", "way.">>, <<"you", "you.">>,
      <<"you", "you?">>, <<"you", "your">> }

ProperSuffix ==
    { <<"?", "you?">>, <<"I", "AI">>, <<"harm", "self-harm">>,
      <<"here", "there">>, <<"how", "show">>, <<"i", "ai">>,
      <<"kill", "skill">> }

\* sub occurs inside word, at neither end
ProperInner ==
    { <<"-", "self-harm">> }

IsPrefixW(sub, w) == sub = w \/ <<sub, w>> \in ProperPrefix
IsSuffixW(sub, w) == sub = w \/ <<sub, w>> \in ProperSuffix
IsInfixW(sub, w)  == \/ IsPrefixW(sub, w) \/ IsSuffixW(sub, w)
                     \/ <<sub, w>> \in ProperInner

\* phrase in text  (substring test; both are token sequences, the phrase not empty)
Contains(text, phrase) ==
    LET n == Len(phrase) IN
    \E i \in 1..(Len(text) - n + 1) :
        IF n = 1 THEN IsInfixW(phrase[1], text[i])
        ELSE /\ IsSuffixW(phrase[1], text[i])
             /\ \A j \in 2..(n - 1) : text[i + j - 1] = phrase[j]
             /\ IsPrefixW(phrase[n], text[i + n - 1])

\* text.startswith(p)
StartsWith(text, p) ==
    /\ Len(text) >= Len(p)
    /\ SubSeq(text, 1, Len(p)) = p

\* The pieces of a token that lie between two word boundaries (\b) and reach
\* the token's end / its start / either; a token of letters is one piece.
TailPieces(w) == CASE w = "self-harm" -> {"self-harm", "harm"}
                   [] w = "don't"     -> {"don't", "t"}
                   [] OTHER           -> {w}
HeadPieces(w) == CASE w = "self-harm" -> {"self-harm", "self"}
                   [] w = "don't"     -> {"don't", "don"}
                   [] OTHER           -> {w}
MidPieces(w)  == CASE w = "self-harm" -> {"self-harm", "self", "harm"}
                   [] w = "don't"     -> {"don't", "don", "t"}
                   [] OTHER           -> {w}

\* re.search(r'\b(a|b)\s+(c|d)\s+...\b', text): pat is the sequence of the
\* alternatives of each word of the pattern
Search(pat, text) ==
    LET n == Len(pat) IN
    \E i \in 1..(Len(text) - n + 1) :
        IF n = 1 THEN MidPieces(text[i]) \cap pat[1] # {}
        ELSE /\ TailPieces(text[i]) \cap pat[1] # {}
             /\ \A j \in 2..(n - 1) : text[i + j - 1] \in pat[j]
             /\ HeadPieces(text[i + n - 1]) \cap pat[n] # {}

\* any(w in text for w in words): words is a sequence of phrases
ContainsAny(text, words) == \E k \in DOMAIN words : Contains(text, words[k])

\* all texts made of at most n fragments of F
RECURSIVE TextsOf(_, _)
TextsOf(F, n) ==
    IF n = 0 THEN {<<>>}
    ELSE LET shorter == TextsOf(F, n - 1) IN
         shorter \cup { t \o f : t \in shorter, f \in F }

(***************************************************************************)
(* SafetyFilter  (safety/safety_filter.py)                                 *)
(***************************************************************************)
\* what one call of the toxicity provider does: it raises, or returns the
\* largest category score (hundredths)
ToxScores == {0, 70, 71, 100}
ToxOutcomes == {[ok |-> FALSE, score |-> 0]}
               \cup {[ok |-> TRUE, score |-> s] : s \in ToxScores}

suicide_patterns ==
    << << {"kill", "end", "take"}, {"my", "own"}, {"life"} >>,
       << {"commit", "committing"}, {"suicide"} >>,
       << {"suicide", "suicidal"} >>,
       << {"want"}, {"to"}, {"die"} >>,
       << {"don't", "dont"}, {"want"}, {"to"}, {"live"} >> >>

\* self[\s-]harm is two tokens, or the one token self-harm
self_harm_patterns ==
    << << {"cut", "cutting", "hurt", "harm"}, {"myself", "my"} >>,
       << {"self"}, {"harm"} >>,
       << {"self-harm"} >>,
       << {"cutting", "burning", "hitting"}, {"myself"} >> >>

\* the self-harm family is not tried
detect_crisis_no_self_harm(text) ==
    LET text_lower == Lower(text) IN
    IF \E k \in DOMAIN suicide_patterns : Search(suicide_patterns[k], text_lower)
    THEN [is_crisis |-> TRUE, crisis_type |-> "suicide_risk"]
    ELSE IF \E k \in DOMAIN config.safety.crisis_keywords :
                Contains(text_lower, Lower(config.safety.crisis_keywords[k]))
    THEN [is_crisis |-> TRUE, crisis_type |-> "crisis_keyword_match"]
    ELSE [is_crisis |-> FALSE, crisis_type |-> None]

\* SafetyFilter._detect_crisis
detect_crisis(text) ==
    LET text_lower == Lower(text) IN
    IF \E k \in DOMAIN suicide_patterns : Search(suicide_patterns[k], text_lower)
    THEN [is_crisis |-> TRUE, crisis_type |-> "suicide_risk"]
    ELSE IF \E k \in DOMAIN self_harm_patterns :
                Search(self_harm_patterns[k], text_lower)
    THEN [is_crisis |-> TRUE, crisis_type |-> "self_harm_risk"]
    ELSE IF \E k \in DOMAIN config.safety.crisis_keywords :
                Contains(text_lower, Lower(config.safety.crisis_keywords[k]))
    THEN [is_crisis |-> TRUE, crisis_type |-> "crisis_keyword_match"]
    ELSE [is_crisis |-> FALSE, crisis_type |-> None]

\* a failed provider call counts as fully toxic
check_toxicity_fail_closed(tox) ==
    IF ~toxicity_model THEN 0
    ELSE IF tox.ok THEN tox.score ELSE 100

\* SafetyFilter._check_toxicity: tox is what the provider's predict does
check_toxicity(tox) ==
    IF ~toxicity_model THEN 0
    ELSE IF tox.ok THEN tox.score ELSE 0

ToxicInputMessage ==
    << "I'm", "here", "to", "provide", "support", "in", "a", "respectful",
       "way.", "Let's", "keep", "our", "conversation", "constructive." >>

\* SafetyFilter.check_input; tox_calls counts the provider calls it makes
check_input(text, tox) ==
    IF ~config.safety.enabled
    THEN [safe |-> TRUE, msg |-> NoText, details |-> EmptyDict, tox_calls |-> 0]
    ELSE
    LET crisis == detect_crisis(text)
        d1 == IF config.safety.crisis_detection
              THEN Put(Put(EmptyDict, "crisis_detected", crisis.is_crisis),
                       "crisis_type", crisis.crisis_type)
              ELSE EmptyDict
    IN
    IF config.safety.crisis_detection /\ crisis.is_crisis
    THEN [safe |-> FALSE, msg |-> config.safety.emergency_response,
          details |-> d1, tox_calls |-> 0]
    ELSE IF toxicity_model
    THEN LET toxicity_score == check_toxicity(tox)
             d2 == Put(d1, "toxicity_score", toxicity_score)
         IN IF toxicity_score > config.safety.toxicity_threshold
            THEN [safe |-> FALSE, msg |-> ToxicInputMessage,
                  details |-> d2, tox_calls |-> 1]
            ELSE [safe |-> TRUE, msg |-> NoText, details |-> d2, tox_calls |-> 1]
    ELSE [safe |-> TRUE, msg |-> NoText, details |-> d1, tox_calls |-> 0]

medical_red_flags ==
    << <<"diagnose">>, <<"diagnosis">>, <<"you", "have">>, <<"you", "are">>,
       <<"prescribe">>, <<"medication", "dosage">>, <<"stop", "taking">> >>

ReplacementMessage ==
    << "I", "apologize,", "but", "I", "need", "to", "rephrase", "my",
       "response.", "How", "can", "I", "better", "support", "you?" >>

\* a medical-authority phrase blocks the output
check_output_blocking_flags(text, tox) ==
    IF ~config.safety.enabled
    THEN [safe |-> TRUE, msg |-> NoText, details |-> EmptyDict, tox_calls |-> 0]
    ELSE
    LET hits == {k \in DOMAIN medical_red_flags :
                    Contains(Lower(text), medical_red_flags[k])}
        last == CHOOSE k \in hits : \A h \in hits : h <= k
        d1 == IF hits = {} THEN EmptyDict
              ELSE Put(EmptyDict, "medical_advice_flag", medical_red_flags[last])
        d2 == IF toxicity_model
              THEN Put(d1, "toxicity_score", check_toxicity(tox)) ELSE d1
    IN
    IF hits # {} \/ (toxicity_model
                     /\ check_toxicity(tox) > config.safety.toxicity_threshold)
    THEN [safe |-> FALSE, msg |-> ReplacementMessage, details |-> d2,
          tox_calls |-> IF toxicity_model THEN 1 ELSE 0]
    ELSE [safe |-> TRUE, msg |-> NoText, details |-> d2,
          tox_calls |-> IF toxicity_model THEN 1 ELSE 0]

\* SafetyFilter.check_output
check_output(text, tox) ==
    IF ~config.safety.enabled
    THEN [safe |-> TRUE, msg |-> NoText, details |-> EmptyDict, tox_calls |-> 0]
    ELSE
    LET text_lower == Lower(text)
        hits == {k \in DOMAIN medical_red_flags :
                    Contains(text_lower, medical_red_flags[k])}
        \* the loop overwrites the key: the last flag found stays
        last == CHOOSE k \in hits : \A h \in hits : h <= k
        d1 == IF hits = {} THEN EmptyDict
              ELSE Put(EmptyDict, "medical_advice_flag", medical_red_flags[last])
    IN
    IF toxicity_model
    THEN LET toxicity_score == check_toxicity(tox)
             d2 == Put(d1, "toxicity_score", toxicity_score)
         IN IF toxicity_score > config.safety.toxicity_threshold
            THEN [safe |-> FALSE, msg |-> ReplacementMessage,
                  details |-> d2, tox_calls |-> 1]
            ELSE [safe |-> TRUE, msg |-> NoText, details |-> d2, tox_calls |-> 1]
    ELSE [safe |-> TRUE, msg |-> NoText, details |-> d1, tox_calls |-> 0]

advice_indicators ==
    << <<"should">>, <<"must">>, <<"need", "to">>, <<"have", "to">>,
       <<"recommend">> >>

prefix ==
    << "Please", "note:", "I'm", "an", "AI", "assistant,", "not", "a",
       "licensed", "therapist." >>

\* the disclaimer is prepended without looking for one
add_safety_prefix_always(response) ==
    IF ContainsAny(Lower(response), advice_indicators)
    THEN prefix \o response
    ELSE response

\* SafetyFilter.add_safety_prefix
add_safety_prefix(response) ==
    IF /\ ContainsAny(Lower(response), advice_indicators)
       /\ ~StartsWith(response, prefix)
    THEN prefix \o response
    ELSE response

(***************************************************************************)
(* ReasoningAgent  (agentic/reasoning_agent.py)                            *)
(***************************************************************************)
\* ReasoningAgent._assess_therapeutic_needs; the result is the joined list
assess_therapeutic_needs(query) ==
    LET query_lower == Lower(query)
        emotion_words == << <<"sad">>, <<"angry">>, <<"anxious">>, <<"worried">>,
                            <<"scared">>, <<"frustrated">>, <<"hopeless">> >>
        n1 == IF ContainsAny(query_lower, emotion_words)
              THEN <<"emotional_validation">> ELSE <<>>
        n2 == IF \/ Contains(query, <<"?">>)
                 \/ ContainsAny(query_lower, << <<"how">>, <<"what">>, <<"why">>,
                                                <<"when">>, <<"where">> >>)
              THEN Append(n1, "information") ELSE n1
        n3 == IF ContainsAny(query_lower, << <<"help">>, <<"cope">>, <<"manage">>,
                                             <<"deal", "with">> >>)
              THEN Append(n2, "coping_strategies") ELSE n2
        crisis_indicators == << <<"suicide">>, <<"kill">>, <<"harm">>,
                                <<"hurt", "myself">>, <<"end", "it">> >>
        n4 == IF ContainsAny(query_lower, crisis_indicators)
              THEN Append(n3, "crisis_support") ELSE n3
        needs == IF \/ Len(n4) = 0
                    \/ ContainsAny(query_lower, << <<"feel">>, <<"feeling">>,
                                                   <<"felt">> >>)
                 THEN Append(n4, "empathy_and_support") ELSE n4
    IN IF needs # <<>> THEN needs ELSE <<"general_support">>

TooBrief == 50
TooLengthy == 200

\* ReasoningAgent._reflect_on_response; the result is the joined list
reflect_on_response(response, original_query) ==
    LET low == Lower(response)
        r1 == IF ContainsAny(low, << <<"understand">>, <<"hear">>, <<"feel">>,
                                     <<"valid">>, <<"makes", "sense">> >>)
              THEN <<"Response shows empathy">> ELSE <<>>
        r2 == IF ContainsAny(low, << <<"try">>, <<"consider">>, <<"might">>,
                                     <<"could">>, <<"suggest">> >>)
              THEN Append(r1, "Provides actionable suggestions") ELSE r1
        n == Len(response)
        reflection ==
              IF TooBrief < n /\ n < TooLengthy THEN Append(r2, "Appropriate length")
              ELSE IF n <= TooBrief THEN Append(r2, "May be too brief")
              ELSE Append(r2, "May be too lengthy")
    IN IF reflection # <<>> THEN reflection ELSE <<"Response generated">>

AnalysisFallback == <<"Unable", "to", "analyze", "-", "model", "not", "available">>
ResponseFallback == <<"I'm", "here", "to", "support", "you.">>
\* a fallback critique that reads as a request for changes
CritiqueFallbackConsider == <<"Consider", "more", "warmth">>
CritiqueFallback == <<"Response", "appears", "appropriate.">>

\* the locals of reason() on entry; model: self.model is attached
ReasonStart(query, context, model) ==
    [pc |-> "start", query |-> query, context |-> context, model |-> model,
     steps |-> <<>>, needs |-> <<>>, initial |-> <<>>, critique |-> <<>>,
     final |-> <<>>, reasoning_used |-> FALSE, gen_calls |-> 0,
     prompts |-> <<>>]

\* the analysis is put into the prompt of the initial response
PromptOfWithAnalysis(r) ==
    CASE r.pc = "start" ->
           [call |-> "generate_response", texts |-> <<r.query>>,
            context |-> r.context]
      [] r.pc = "situation_analysis" ->
           [call |-> "situation_analysis", texts |-> <<r.query>>,
            context |-> r.context]
      [] r.pc = "initial_response" ->
           [call |-> "initial_response",
            texts |-> <<r.query, r.needs>>
                      \o [i \in DOMAIN r.steps |-> r.steps[i].content],
            context |-> r.context]
      [] r.pc = "self_critique" ->
           [call |-> "self_critique", texts |-> <<r.initial, r.needs>>,
            context |-> [some |-> FALSE, chunks |-> <<>>]]
      [] r.pc = "refined_response" ->
           [call |-> "refined_response",
            texts |-> <<r.initial, r.critique, r.needs>>,
            context |-> [some |-> FALSE, chunks |-> <<>>]]
      [] OTHER -> [call |-> "none", texts |-> <<>>,
                   context |-> [some |-> FALSE, chunks |-> <<>>]]

\* the arguments of the call of self.model.generate_response made at r.pc:
\* the texts formatted into the prompt and the context passed (None for the
\* critique and the refinement), lines 56, 147-160, 201-208, 212-228, 232-243
PromptOf(r) ==
    CASE r.pc = "start" ->
           [call |-> "generate_response", texts |-> <<r.query>>,
            context |-> r.context]
      [] r.pc = "situation_analysis" ->
           [call |-> "situation_analysis", texts |-> <<r.query>>,
            context |-> r.context]
      [] r.pc = "initial_response" ->
           [call |-> "initial_response", texts |-> <<r.query, r.needs>>,
            context |-> r.context]
      [] r.pc = "self_critique" ->
           [call |-> "self_critique", texts |-> <<r.initial, r.needs>>,
            context |-> [some |-> FALSE, chunks |-> <<>>]]
      [] r.pc = "refined_response" ->
           [call |-> "refined_response",
            texts |-> <<r.initial, r.critique, r.needs>>,
            context |-> [some |-> FALSE, chunks |-> <<>>]]
      [] OTHER -> [call |-> "none", texts |-> <<>>,
                   context |-> [some |-> FALSE, chunks |-> <<>>]]

\* the prompts sent so far, with the one of the call made at r.pc if the
\* model is attached
Prompted(r) == IF r.model THEN Append(r.prompts, PromptOf(r)) ELSE r.prompts

\* the new entry replaces the trace instead of extending it
AddStepOverwrite(r, kind, content) ==
    <<[step |-> kind, content |-> content]>>

\* reasoning_steps.append({'step': kind, 'content': content})
AddStep(r, kind, content) ==
    Append(r.steps, [step |-> kind, content |-> content])

\* the trigger is looked for in the critique as written, capitals included
NeedsRefinementCaseSensitive(critique) ==
    \/ Contains(critique, <<"needs", "improvement">>)
    \/ Contains(critique, <<"consider">>)

\* the critique asks for a refinement
NeedsRefinement(critique) ==
    \/ Contains(Lower(critique), <<"needs", "improvement">>)
    \/ Contains(Lower(critique), <<"consider">>)

\* the disabled agent records its one generation as a reasoning step
ReasonDisabledTraces(r, gen) ==
    [r EXCEPT !.pc = "done", !.final = gen, !.gen_calls = r.gen_calls + 1,
              !.prompts = Prompted(r),
              !.steps = AddStep(r, "initial_response", gen),
              !.reasoning_used = TRUE]

\* reason(), lines 54-67: agentic reasoning is disabled
ReasonDisabled(r, gen) ==
    IF r.model
    THEN [r EXCEPT !.pc = "done", !.final = gen, !.gen_calls = r.gen_calls + 1,
                   !.prompts = Prompted(r)]
    ELSE [r EXCEPT !.pc = "done", !.final = <<>>]

\* One step of ReasoningAgent.reason from the locals r; gen is the text the
\* generation capability returns if this step calls it.
ReasonStep(r, gen) ==
    CASE r.pc = "start" ->
           IF ~config.agentic.enabled
           THEN ReasonDisabled(r, gen)
           ELSE [r EXCEPT !.pc = "situation_analysis"]
      [] r.pc = "situation_analysis" ->
           IF config.agentic.chain_of_thought
           THEN IF r.model
                THEN [r EXCEPT !.pc = "needs_assessment",
                               !.steps = AddStep(r, "situation_analysis", gen),
                               !.gen_calls = r.gen_calls + 1,
                               !.prompts = Prompted(r)]
                ELSE [r EXCEPT !.pc = "needs_assessment",
                               !.steps = AddStep(r, "situation_analysis",
                                                 AnalysisFallback)]
           ELSE [r EXCEPT !.pc = "needs_assessment"]
      [] r.pc = "needs_assessment" ->
           LET needs == assess_therapeutic_needs(r.query) IN
           [r EXCEPT !.pc = "initial_response", !.needs = needs,
                     !.steps = AddStep(r, "needs_assessment", needs)]
      [] r.pc = "initial_response" ->
           LET initial == IF r.model THEN gen ELSE ResponseFallback IN
           [r EXCEPT !.pc = "self_critique", !.initial = initial,
                     !.steps = AddStep(r, "initial_response", initial),
                     !.gen_calls = r.gen_calls + (IF r.model THEN 1 ELSE 0),
                     !.prompts = Prompted(r)]
      [] r.pc = "self_critique" ->
           IF config.agentic.self_critique_enabled
           THEN LET critique == IF r.model THEN gen ELSE CritiqueFallback IN
                [r EXCEPT !.pc = IF NeedsRefinement(critique)
                                 THEN "refined_response" ELSE "reflection",
                          !.critique = critique,
                          !.steps = AddStep(r, "self_critique", critique),
                          !.final = IF NeedsRefinement(critique)
                                    THEN r.final ELSE r.initial,
                          !.gen_calls = r.gen_calls + (IF r.model THEN 1 ELSE 0),
                          !.prompts = Prompted(r)]
           ELSE [r EXCEPT !.pc = "reflection", !.final = r.initial]
      [] r.pc = "refined_response" ->
           LET refined == IF r.model THEN gen ELSE r.initial IN
           [r EXCEPT !.pc = "reflection", !.final = refined,
                     !.steps = AddStep(r, "refined_response", refined),
                     !.gen_calls = r.gen_calls + (IF r.model THEN 1 ELSE 0),
                     !.prompts = Prompted(r)]
      [] r.pc = "reflection" ->
           IF config.agentic.reflection_enabled
           THEN [r EXCEPT !.pc = "done", !.reasoning_used = TRUE,
                          !.steps = AddStep(r, "reflection",
                                       reflect_on_response(r.final, r.query))]
           ELSE [r EXCEPT !.pc = "done", !.reasoning_used = TRUE]
      [] OTHER -> r

\* the kind of text the generation capability is asked for at r.pc
GenKind(r) ==
    CASE r.pc = "start" -> "response"
      [] r.pc = "situation_analysis" -> "analysis"
      [] r.pc = "initial_response" -> "response"
      [] r.pc = "self_critique" -> "critique"
      [] r.pc = "refined_response" -> "refined"
      [] OTHER -> "none"

\* reason() run to its return; outs[kind] is what the generation capability
\* returns to the call of that kind
RECURSIVE ReasonRun(_, _)
ReasonRun(r, outs) ==
    IF r.pc = "done" THEN r
    ELSE ReasonRun(ReasonStep(r, IF GenKind(r) = "none" THEN <<>>
                                 ELSE outs[GenKind(r)]), outs)

(***************************************************************************)
(* COTHERFEvaluator  (evaluation/cotherf.py).  Sub-scores are thousandths  *)
(* (0.5 -> 500); the weights are twentieths (0.25 -> 5), so the overall    *)
(* score is in units of 1/20000.                                           *)
(***************************************************************************)
Min2(a, b) == IF a <= b THEN a ELSE b

\* max(0.0, min(1.0, score))
Clamp01(x) == IF x < 0 THEN 0 ELSE IF x > 1000 THEN 1000 ELSE x

\* sum(1 for w in words if w in text)
Hits(text, words) == Cardinality({k \in DOMAIN words : Contains(text, words[k])})

empathy_indicators ==
    << <<"understand">>, <<"hear", "you">>, <<"makes", "sense">>, <<"valid">>,
       <<"natural">>, <<"must", "be">>, <<"sounds", "like">>, <<"feel">>,
       <<"difficult">>, <<"challenging">> >>

safety_red_flags ==
    << <<"diagnose">>, <<"you", "have">>, <<"definitely">>,
       <<"certainly", "have">>, <<"prescribe">>,
       <<"take", "this", "medication">>, <<"stop", "your", "medication">> >>

\* _evaluate_empathy, lines 163-164 and 169
emotion_words ==
    << <<"feel">>, <<"feeling">>, <<"felt">>, <<"emotion">>, <<"sad">>,
       <<"angry">>, <<"anxious">>, <<"worried">>, <<"happy">>, <<"frustrated">> >>

judgmental ==
    << <<"should", "have">>, <<"why", "did", "you">>, <<"your", "fault">>,
       <<"blame">> >>

\* COTHERFEvaluator._evaluate_empathy
evaluate_empathy(query, response) ==
    LET response_lower == Lower(response)
        empathy_count == Hits(response_lower, empathy_indicators)
        empathy_score == Min2(400, empathy_count * 100)
        s1 == 500 + empathy_score
        s2 == IF ContainsAny(response_lower, emotion_words) THEN s1 + 100 ELSE s1
        s3 == IF ContainsAny(response_lower, judgmental) THEN s2 - 200 ELSE s2
    IN Clamp01(s3)

\* set(text.lower().split())
WordSet(text) == {Lower(text)[i] : i \in DOMAIN text}

stop_words ==
    {"the", "a", "an", "and", "or", "but", "in", "on", "at", "to", "for", "of",
     "with", "by", "from", "i", "you", "is", "are"}

\* COTHERFEvaluator._evaluate_relevance; overlap * 0.4 is rounded down to a
\* thousandth
evaluate_relevance(query, response) ==
    LET query_words == WordSet(query) \ stop_words
        response_words == WordSet(response) \ stop_words
        s1 == IF query_words # {}
              THEN 500 + (400 * Cardinality(query_words \cap response_words))
                             \div Cardinality(query_words)
              ELSE 500
        s2 == IF /\ Contains(query, <<"?">>)
                 /\ ContainsAny(Lower(response),
                                << <<"because">>, <<"reason">>, <<"help">>,
                                   <<"try">>, <<"can">> >>)
              THEN s1 + 100 ELSE s1
    IN Clamp01(s2)

\* COTHERFEvaluator._evaluate_informativeness; the texts of the model are
\* single lines, so of the structure markers only '1.' and '2.' can occur
evaluate_informativeness(response) ==
    LET word_count == Len(response)
        s1 == IF 30 <= word_count /\ word_count <= 150 THEN 700
              ELSE IF word_count < 20 THEN 400
              ELSE IF word_count > 200 THEN 400
              ELSE 500
        action_words == << <<"try">>, <<"consider">>, <<"might">>, <<"could">>,
                           <<"practice">>, <<"technique">>, <<"strategy">>,
                           <<"approach">>, <<"exercise">> >>
        action_count == Hits(Lower(response), action_words)
        s2 == s1 + Min2(200, action_count * 50)
        s3 == IF ContainsAny(response, << <<"1.">>, <<"2.">> >>)
              THEN s2 + 100 ELSE s2
    IN Clamp01(s3)

\* the context argument of the evaluator: None, or a dictionary of which the
\* evaluator reads the key 'safety_details' ({} if the key is absent)
NoEvalContext == [some |-> FALSE, safety_details |-> EmptyDict]
EvalContext(safety_details) == [some |-> TRUE, safety_details |-> safety_details]

\* the score before it is clamped
safety_raw(response, context) ==
    LET response_lower == Lower(response)
        s1 == 1000 - 300 * Hits(response_lower, safety_red_flags)
        safety_details == context.safety_details
        s2 == IF /\ context.some
                 /\ Get(safety_details, "crisis_detected", FALSE) = TRUE
                 /\ ~ \/ Contains(response_lower, <<"crisis">>)
                      \/ Contains(response, <<"988">>)
                      \/ Contains(response_lower, <<"helpline">>)
              THEN s1 - 500 ELSE s1
        \* the gate's score is hundredths
        toxicity == 10 * Get(safety_details, "toxicity_score", 0)
        s3 == IF context.some /\ toxicity > 500
              THEN s2 - toxicity \div 2 ELSE s2
    IN s3

\* the safety sub-score is not clamped
evaluate_safety_unclamped(response, context) ==
    safety_raw(response, context)

\* COTHERFEvaluator._evaluate_safety
evaluate_safety(response, context) ==
    Clamp01(safety_raw(response, context))

\* COTHERFEvaluator._evaluate_therapeutic_alliance
evaluate_therapeutic_alliance(response) ==
    LET response_lower == Lower(response)
        alliance_phrases == << <<"together">>, <<"we", "can">>, <<"work", "with">>,
                               <<"support", "you">>, <<"here", "for", "you">>,
                               <<"help", "you">>, <<"alongside">> >>
        alliance_count == Hits(response_lower, alliance_phrases)
        s1 == 500 + Min2(300, alliance_count * 100)
        s2 == IF ContainsAny(response_lower,
                             << <<"what", "do", "you", "think">>, <<"how", "does">>,
                                <<"would", "you", "like">>, <<"your", "thoughts">> >>)
              THEN s1 + 100 ELSE s1
        warmth_words == << <<"care">>, <<"important">>, <<"matter">>,
                           <<"deserve">>, <<"worth">> >>
        s3 == IF ContainsAny(response_lower, warmth_words) THEN s2 + 100 ELSE s2
    IN Clamp01(s3)

\* COTHERFEvaluator._evaluate_clinical_accuracy
evaluate_clinical_accuracy(response) ==
    LET response_lower == Lower(response)
        evidence_terms == << <<"research">>, <<"studies">>, <<"evidence">>,
                             <<"therapy">>, <<"cbt">>, <<"mindfulness">>,
                             <<"technique">>, <<"practice">>, <<"shown", "to">> >>
        evidence_count == Hits(response_lower, evidence_terms)
        s1 == 500 + Min2(200, evidence_count * 50)
        boundary_phrases == << <<"not", "a", "replacement">>,
                               <<"licensed", "therapist">>,
                               <<"professional", "help">>,
                               <<"mental", "health", "professional">> >>
        s2 == IF ContainsAny(response_lower, boundary_phrases)
              THEN s1 + 200 ELSE s1
        qualifiers == << <<"might">>, <<"could">>, <<"sometimes">>, <<"often">>,
                         <<"may">> >>
        s3 == IF ContainsAny(response_lower, qualifiers) THEN s2 + 100 ELSE s2
    IN Clamp01(s3)

SubScores == {"empathy", "relevance", "informativeness", "safety",
              "therapeutic_alliance", "clinical_accuracy"}

weights ==
    [empathy |-> 5, relevance |-> 3, informativeness |-> 3, safety |-> 5,
     therapeutic_alliance |-> 2, clinical_accuracy |-> 2]

\* sum(scores[m] * weights[m] for m in keys)
RECURSIVE WeightedSum(_, _)
WeightedSum(scores, keys) ==
    IF keys = {} THEN 0
    ELSE LET m == CHOOSE x \in keys : TRUE
         IN scores[m] * weights[m] + WeightedSum(scores, keys \ {m})

\* lines 96-112: the sub-scores of the configured metrics
ComputedScores(query, response, context) ==
    [m \in SubScores \cap config.evaluation.metrics |->
        CASE m = "empathy" -> evaluate_empathy(query, response)
          [] m = "relevance" -> evaluate_relevance(query, response)
          [] m = "informativeness" -> evaluate_informativeness(response)
          [] m = "safety" -> evaluate_safety(response, context)
          [] m = "therapeutic_alliance" -> evaluate_therapeutic_alliance(response)
          [] m = "clinical_accuracy" -> evaluate_clinical_accuracy(response)]

\* the default 0.5 of a metric that is not configured enters the weighted sum
evaluate_response_default_first(query, response, context) ==
    LET scores == ComputedScores(query, response, context)
        shown == [m \in SubScores |-> Get(scores, m, 500)]
    IN [empathy |-> shown["empathy"],
        relevance |-> shown["relevance"],
        informativeness |-> shown["informativeness"],
        safety |-> shown["safety"],
        therapeutic_alliance |-> shown["therapeutic_alliance"],
        clinical_accuracy |-> shown["clinical_accuracy"],
        overall |-> WeightedSum(shown, SubScores)]

\* COTHERFEvaluator.evaluate_response
evaluate_response(query, response, context) ==
    LET scores == ComputedScores(query, response, context)
        overall == WeightedSum(scores, DOMAIN scores)
    IN [empathy |-> Get(scores, "empathy", 500),
        relevance |-> Get(scores, "relevance", 500),
        informativeness |-> Get(scores, "informativeness", 500),
        safety |-> Get(scores, "safety", 500),
        therapeutic_alliance |-> Get(scores, "therapeutic_alliance", 500),
        clinical_accuracy |-> Get(scores, "clinical_accuracy", 500),
        overall |-> overall]

\* None where a score object is expected
NoScore == [none |-> TRUE]

RECURSIVE SumSeq(_)
SumSeq(values) ==
    IF values = <<>> THEN 0 ELSE Head(values) + SumSeq(Tail(values))

\* np.mean, np.std, np.min, np.max of a non-empty list, kept exact: the mean
\* is sum / n and the (population) standard deviation is
\* sqrt(n * sum of d^2 - (sum of d)^2) / n, d the distance to the minimum
StatsOf(values) ==
    LET n == Len(values)
        lo == CHOOSE v \in {values[i] : i \in DOMAIN values} :
                 \A i \in DOMAIN values : v <= values[i]
        hi == CHOOSE v \in {values[i] : i \in DOMAIN values} :
                 \A i \in DOMAIN values : v >= values[i]
        d == [i \in DOMAIN values |-> values[i] - lo]
        squares == SumSeq([i \in DOMAIN values |-> d[i] * d[i]])
    IN [n |-> n, sum |-> SumSeq(values),
        var_times_n2 |-> n * squares - SumSeq(d) * SumSeq(d),
        min |-> lo, max |-> hi]

\* the metrics batch_evaluate reports, lines 366-367
BatchMetrics == SubScores \cup {"overall"}

\* COTHERFEvaluator.batch_evaluate on a non-empty list of
\* [query, response, context]
batch_evaluate(evaluations) ==
    LET all_scores == [i \in DOMAIN evaluations |->
                          evaluate_response(evaluations[i].query,
                                            evaluations[i].response,
                                            evaluations[i].context)]
    IN [metric \in BatchMetrics |->
           StatsOf([i \in DOMAIN all_scores |-> all_scores[i][metric]])]

(***************************************************************************)
(* TraitsAnalyzer  (psychometric/traits_analyzer.py).  Scores are          *)
(* thousandths.                                                            *)
(***************************************************************************)
agreeableness_indicators ==
    [positive |-> << <<"understand">>, <<"agree">>, <<"together">>, <<"support">>,
                     <<"help">>, <<"care">>, <<"kindness">>, <<"compassion">>,
                     <<"empathy">>, <<"warm">>, <<"appreciate">>, <<"thank">>,
                     <<"sorry">>, <<"apologize">>, <<"valid">> >>,
     negative |-> << <<"disagree">>, <<"wrong">>, <<"shouldn't">>,
                     <<"must", "not">>, <<"refuse">>, <<"reject">>, <<"oppose">>,
                     <<"conflict">>, <<"argue">> >>]

conscientiousness_indicators ==
    [positive |-> << <<"plan">>, <<"organize">>, <<"structure">>, <<"goal">>,
                     <<"step">>, <<"strategy">>, <<"careful">>, <<"consider">>,
                     <<"think", "about">>, <<"prepare">>, <<"practice">>,
                     <<"consistent">>, <<"regular">>, <<"routine">>,
                     <<"schedule">>, <<"systematic">> >>,
     negative |-> << <<"random">>, <<"whenever">>, <<"spontaneous">>,
                     <<"impulsive">>, <<"careless">> >>]

emotional_stability_indicators ==
    [positive |-> << <<"calm">>, <<"stable">>, <<"peace">>, <<"balance">>,
                     <<"manage">>, <<"cope">>, <<"resilient">>, <<"handle">>,
                     <<"steady">>, <<"composed">>, <<"grounded">>, <<"center">>,
                     <<"breathe">>, <<"relax">>, <<"regulate">> >>,
     negative |-> << <<"panic">>, <<"anxious">>, <<"overwhelm">>, <<"crisis">>,
                     <<"disaster">>, <<"terrible">>, <<"awful">>,
                     <<"catastrophe">> >>]

openness_indicators ==
    [positive |-> << <<"explore">>, <<"curious">>, <<"wonder">>, <<"imagine">>,
                     <<"creative">>, <<"new">>, <<"different">>, <<"perspective">>,
                     <<"possibility">>, <<"alternative">>, <<"consider">>,
                     <<"think", "about">>, <<"reflect">>, <<"insight">>,
                     <<"learn">> >>,
     negative |-> << <<"always">>, <<"never">>, <<"only", "way">>, <<"must">>,
                     <<"rigid">>, <<"fixed">> >>]

extraversion_indicators ==
    [positive |-> << <<"together">>, <<"social">>, <<"connect">>,
                     <<"reach", "out">>, <<"talk", "to">>, <<"share">>,
                     <<"express">>, <<"communicate">>, <<"engage">>,
                     <<"interact">>, <<"group">>, <<"people">>, <<"friends">>,
                     <<"others">> >>,
     negative |-> << <<"alone">>, <<"isolate">>, <<"withdraw">>, <<"avoid">>,
                     <<"private">>, <<"quiet">> >>]

\* TraitsAnalyzer._score_trait: 0.5 + raw_score / (2 * 10), clamped
score_trait(text, indicators) ==
    LET positive_count == Hits(text, indicators.positive)
        negative_count == Hits(text, indicators.negative)
        raw_score == positive_count - negative_count
    IN Clamp01(500 + 50 * raw_score)

Traits == {"Agreeableness", "Conscientiousness", "Emotional_Stability",
           "Openness", "Extraversion"}

\* TraitsAnalyzer.analyze_response
analyze_response(response) ==
    IF ~config.psychometric.enabled
    THEN [agreeableness |-> 500, conscientiousness |-> 500,
          emotional_stability |-> 500, openness |-> 500, extraversion |-> 500]
    ELSE
    LET response_lower == Lower(response)
        on(trait) == trait \in config.psychometric.traits
    IN [agreeableness |->
            IF on("Agreeableness")
            THEN score_trait(response_lower, agreeableness_indicators) ELSE 500,
        conscientiousness |->
            IF on("Conscientiousness")
            THEN score_trait(response_lower, conscientiousness_indicators) ELSE 500,
        emotional_stability |->
            IF on("Emotional_Stability")
            THEN score_trait(response_lower, emotional_stability_indicators)
            ELSE 500,
        openness |->
            IF on("Openness")
            THEN score_trait(response_lower, openness_indicators) ELSE 500,
        extraversion |->
            IF on("Extraversion")
            THEN score_trait(response_lower, extraversion_indicators) ELSE 500]

\* trait.replace('_', ' ').title().replace(' ', '_')
TraitKey(trait) ==
    CASE trait = "agreeableness" -> "Agreeableness"
      [] trait = "conscientiousness" -> "Conscientiousness"
      [] trait = "emotional_stability" -> "Emotional_Stability"
      [] trait = "openness" -> "Openness"
      [] trait = "extraversion" -> "Extraversion"

\* TraitsAnalyzer.batch_analyze on a non-empty list of responses
batch_analyze(responses) ==
    LET all_scores == [i \in DOMAIN responses |-> analyze_response(responses[i])]
        traits == {"agreeableness", "conscientiousness", "emotional_stability",
                   "openness", "extraversion"}
    IN [trait \in {t \in traits : TraitKey(t) \in config.psychometric.traits} |->
           StatsOf([i \in DOMAIN all_scores |-> all_scores[i][trait]])]

(***************************************************************************)
(* Configurations and inputs.                                              *)
(***************************************************************************)
EmergencyResponse == <<"Please", "call", "988", "now.">>

KeywordLists == { <<>>, << <<"Hopeless">>, <<"kill", "myself">> >> }

SafetyConfigs ==
    [enabled : BOOLEAN, crisis_detection : BOOLEAN,
     toxicity_threshold : {0, 70}, crisis_keywords : KeywordLists,
     emergency_response : {EmergencyResponse}]

AgenticConfigs ==
    [enabled : BOOLEAN, chain_of_thought : BOOLEAN,
     self_critique_enabled : BOOLEAN, reflection_enabled : BOOLEAN]

DefaultSafety ==
    [enabled |-> TRUE, crisis_detection |-> TRUE, toxicity_threshold |-> 70,
     crisis_keywords |-> << <<"Hopeless">>, <<"kill", "myself">> >>,
     emergency_response |-> EmergencyResponse]

DefaultAgentic ==
    [enabled |-> TRUE, chain_of_thought |-> TRUE,
     self_critique_enabled |-> TRUE, reflection_enabled |-> TRUE]

\* config['retrieval']: the switch and the chunking window (words)
RetrievalConfigs == [enabled : BOOLEAN, chunk_size : {3}, chunk_overlap : {1}]

DefaultRetrieval == [enabled |-> TRUE, chunk_size |-> 3, chunk_overlap |-> 1]

\* config['evaluation']
DefaultEvaluation == [metrics |-> SubScores]

\* config['psychometric']
DefaultPsychometric == [enabled |-> TRUE, traits |-> Traits]

KillMyself == <<"I", "want", "to", "kill", "myself">>

InputFragments ==
    { KillMyself, <<"want", "to", "die">>, <<"KILL", "my", "life">>,
      <<"hurt", "myself">>, <<"self-harm">>, <<"don't", "want", "to", "live">>,
      <<"Suicidal">>, <<"feeling", "hopeless">>, <<"feeling", "sad">>,
      <<"skill", "myself">> }

OutputFragments ==
    { <<"I", "hear", "you">>, <<"You", "should", "rest">>,
      <<"you", "have", "to", "shoulder", "it">>, <<"I", "diagnosed", "it">>,
      <<"stop", "taking", "it">>, prefix, ReplacementMessage }

InputTexts == TextsOf(InputFragments, MaxFrags)
OutputTexts == TextsOf(OutputFragments, MaxFrags)

\* what the toxicity provider can do in one call of a gate method
ToxFor == IF toxicity_model THEN ToxOutcomes ELSE {[ok |-> TRUE, score |-> 0]}

(***************************************************************************)
(* SafetyFilter harness: a method applied to the text gtext, the toxicity  *)
(* provider doing gtox if it is called.                                    *)
(***************************************************************************)
GCheckInput ==
    /\ gop = "none"
    /\ gtext \in InputTexts
    /\ gop' = "check_input"
    /\ gres' = check_input(gtext, gtox)
    /\ UNCHANGED <<gtext, gtox, gcount, config, toxicity_model, pipeVars, rs,
                 ds, ev, kb>>

GCheckOutput ==
    /\ gop = "none"
    /\ gtext \in OutputTexts
    /\ gop' = "check_output"
    /\ gres' = check_output(gtext, gtox)
    /\ UNCHANGED <<gtext, gtox, gcount, config, toxicity_model, pipeVars, rs,
                 ds, ev, kb>>

GAddPrefix ==
    /\ gop = "none"
    /\ gtext \in OutputTexts
    /\ gop' = "add_safety_prefix"
    /\ gres' = [text |-> add_safety_prefix(gtext)]
    /\ gcount' = 1
    /\ UNCHANGED <<gtext, gtox, config, toxicity_model, pipeVars, rs,
                 ds, ev, kb>>

\* add_safety_prefix applied to what it returned
GAddPrefixAgain ==
    /\ gop = "add_safety_prefix"
    /\ gcount < MaxApply
    /\ gtext' = gres.text
    /\ gres' = [text |-> add_safety_prefix(gres.text)]
    /\ gcount' = gcount + 1
    /\ UNCHANGED <<gop, gtox, config, toxicity_model, pipeVars, rs,
                 ds, ev, kb>>

(***************************************************************************)
(* ReasoningAgent harness: reason() run step by step.                      *)
(***************************************************************************)
Queries == { KillMyself, <<"feeling", "sad">>, <<"can", "you", "help", "me", "you?">>,
             <<"show", "me">>, <<"hello", "there">> }

Chunk == <<"breathing", "helps">>
\* the context argument: None, or a list of chunks
NoContext == [some |-> FALSE, chunks |-> <<>>]
Contexts == { NoContext, [some |-> TRUE, chunks |-> <<>>],
              [some |-> TRUE, chunks |-> <<Chunk>>] }

AnalysisOuts == { <<"The", "person", "feels", "sad">> }
ResponseOuts == { <<"I", "hear", "you">>, <<"You", "should", "rest">>,
                  <<"you", "have", "to", "stop", "taking", "it">> }
CritiqueOuts == { <<"Looks", "good.">>, <<"Consider", "more", "warmth">>,
                  <<"It", "NEEDS", "improvement">>, <<"considerate", "reply">> }
RefinedOuts  == { <<"I", "understand,", "you", "could", "rest">> }

\* the texts the generation capability may return to a call of each kind
GenOuts(kind) ==
    CASE kind = "analysis" -> AnalysisOuts
      [] kind = "response" -> ResponseOuts
      [] kind = "critique" -> CritiqueOuts
      [] kind = "refined"  -> RefinedOuts
      [] OTHER             -> {<<>>}

RIdle == [pc |-> "idle"]

\* a caller enters reason(query, context)
RCall ==
    /\ rs.pc \in {"idle", "done"}
    /\ \E q \in Queries, c \in Contexts, m \in BOOLEAN :
          rs' = ReasonStart(q, c, m)
    /\ UNCHANGED <<config, toxicity_model, pipeVars, gateVars, ds, ev, kb>>

\* reason() takes its next step
RStep ==
    /\ rs.pc \notin {"idle", "done"}
    /\ \E gen \in GenOuts(IF rs.model THEN GenKind(rs) ELSE "none") :
          rs' = ReasonStep(rs, gen)
    /\ UNCHANGED <<config, toxicity_model, pipeVars, gateVars, ds, ev, kb>>

(***************************************************************************)
(* reason() run to its end under a generation capability whose answer is a *)
(* function of the arguments of the call, by agents that differ in their   *)
(* chain_of_thought and reflection_enabled switches.  rs.runs lists, for   *)
(* each run, the agent's configuration and what reason() returned.         *)
(***************************************************************************)
MaxRuns == 2

\* the size of the arguments of a generation call
PromptSize(prompt) ==
    SumSeq([i \in DOMAIN prompt.texts |-> Len(prompt.texts[i])])
    + Len(prompt.context.chunks)

\* a generation capability: for each kind of call the texts it may answer
\* with, the answer being picked by the arguments of the call
Generators ==
    [analysis : { <<<<"The", "person", "feels", "sad">>>> },
     response : { << <<"I", "hear", "you">>, <<"You", "should", "rest">> >>,
                  << <<"You", "should", "rest">>, <<"I", "hear", "you">> >> },
     critique : { << <<"Looks", "good.">>, <<"Consider", "more", "warmth">> >>,
                  << <<"Consider", "more", "warmth">>, <<"Looks", "good.">> >> },
     refined  : { << <<"I", "understand,", "you", "could", "rest">>,
                     <<"I", "hear", "you">> >> }]

\* self.model.generate_response(prompt, context) of the capability G
Answer(G, r) ==
    LET texts == G[GenKind(r)] IN
    texts[(PromptSize(PromptOf(r)) % Len(texts)) + 1]

RECURSIVE ReasonRunWith(_, _)
\* reason() run to its return with the capability G
ReasonRunWith(r, G) ==
    IF r.pc = "done" THEN r
    ELSE ReasonRunWith(ReasonStep(r, IF GenKind(r) = "none" THEN <<>>
                                     ELSE Answer(G, r)), G)

\* agent.reason(query, context)
OReason ==
    /\ rs.pc = "observe"
    /\ Len(rs.runs) < MaxRuns
    /\ rs' = [rs EXCEPT !.runs =
                 Append(@, [agentic |-> config.agentic,
                            result |-> ReasonRunWith(
                                ReasonStart(rs.query, rs.context, TRUE), rs.G)])]
    /\ UNCHANGED <<config, toxicity_model, pipeVars, gateVars, ds, ev, kb>>

\* a new ReasoningAgent(config, model) with other observation switches
OReconfigure ==
    /\ rs.pc = "observe"
    /\ Len(rs.runs) < MaxRuns
    /\ \E cot \in BOOLEAN, reflection \in BOOLEAN :
          config' = [config EXCEPT !.agentic.chain_of_thought = cot,
                                   !.agentic.reflection_enabled = reflection]
    /\ UNCHANGED <<toxicity_model, pipeVars, gateVars, rs, ds, ev, kb>>

(***************************************************************************)
(* _reflect_on_response called on responses of every length up to MaxWords. *)
(***************************************************************************)
MaxWords == 201

\* a response of n words, none of them an indicator
Filler(n) == [i \in 1..n |-> "okay"]

ReflectResponses ==
    { Filler(n) : n \in 0..MaxWords } \cup
    { <<"I", "understand">> \o Filler(n) : n \in 0..MaxWords } \cup
    { <<"you", "could", "try">> \o Filler(n) : n \in 0..MaxWords }

\* self._reflect_on_response(response, original_query)
RReflect ==
    /\ rs.pc = "reflect_call"
    /\ rs' = [rs EXCEPT !.pc = "reflected",
                        !.reflection = reflect_on_response(rs.response, rs.query)]
    /\ UNCHANGED <<config, toxicity_model, pipeVars, gateVars, ds, ev, kb>>

(***************************************************************************)
(* Evaluator and analyzer harness: a method applied to the turns ev.turns. *)
(***************************************************************************)
\* batch sizes: at most MaxTurns turns in one batch
MaxTurns == 2

EvalQueries == { <<>>, <<"I'm", "feeling", "anxious">>,
                 <<"can", "you", "help", "me", "you?">> }

EvalResponses ==
    { <<>>,
      <<"I", "hear", "you">>,
      <<"I", "understand", "you", "are", "feeling", "anxious">>,
      <<"I", "diagnose", "it", "you", "have", "it", "definitely", "so", "I",
        "prescribe">>,
      EmergencyResponse,
      <<"understand", "agree", "together", "support", "help", "care", "kindness",
        "compassion", "empathy", "warm", "appreciate">>,
      <<"it", "is", "your", "fault", "you", "should", "have", "known">>,
      <<"Just", "do", "it.", "Stop", "complaining.">>,
      ReplacementMessage \o ReplacementMessage,
      <<"we", "can", "try", "a", "breathing", "technique", "together", "1.">> }

\* the side signals: none, an empty dictionary, a detected crisis, a
\* toxicity score (hundredths) at, just above and far above 0.5
EvalContexts ==
    { NoEvalContext, EvalContext(EmptyDict),
      EvalContext(Put(Put(EmptyDict, "crisis_detected", TRUE),
                      "crisis_type", "suicide_risk")),
      EvalContext(Put(EmptyDict, "toxicity_score", 50)),
      EvalContext(Put(EmptyDict, "toxicity_score", 51)),
      EvalContext(Put(Put(Put(EmptyDict, "crisis_detected", TRUE),
                          "crisis_type", "self_harm_risk"),
                      "toxicity_score", 100)) }

\* the turns that batches are made of
BatchTurns ==
    { [query |-> <<"I'm", "feeling", "anxious">>,
       response |-> <<"I", "understand", "you", "are", "feeling", "anxious">>,
       context |-> NoEvalContext],
      [query |-> <<"I'm", "feeling", "anxious">>,
       response |-> <<"I", "hear", "you">>,
       context |-> EvalContext(Put(EmptyDict, "toxicity_score", 51))],
      [query |-> <<"can", "you", "help", "me", "you?">>,
       response |-> <<"I", "diagnose", "it", "you", "have", "it", "definitely",
                      "so", "I", "prescribe">>,
       context |-> EvalContext(EmptyDict)],
      [query |-> <<>>, response |-> <<>>, context |-> NoEvalContext] }

RECURSIVE SeqsUpTo(_, _)
SeqsUpTo(S, n) ==
    IF n = 0 THEN {<<>>}
    ELSE LET shorter == SeqsUpTo(S, n - 1) IN
         shorter \cup { Append(q, x) : q \in shorter, x \in S }

EvalInputs ==
    { <<t>> : t \in [query : EvalQueries, response : EvalResponses,
                     context : EvalContexts] }
    \cup SeqsUpTo(BatchTurns, MaxTurns)

MetricSets == { SubScores, SubScores \ {"clinical_accuracy"},
                {"empathy", "safety"}, {} }

PsychometricConfigs == [enabled : BOOLEAN, traits : {Traits, {"Agreeableness"}}]

\* evaluator.evaluate_response(query, response, context)
EEvaluateResponse ==
    /\ ev.op = "none"
    /\ Len(ev.turns) = 1
    /\ ev' = [ev EXCEPT !.op = "evaluate_response",
                        !.out = evaluate_response(ev.turns[1].query,
                                                  ev.turns[1].response,
                                                  ev.turns[1].context)]
    /\ UNCHANGED <<config, toxicity_model, pipeVars, gateVars, rs, ds, kb>>

\* traits_analyzer.analyze_response(response)
EAnalyzeResponse ==
    /\ ev.op = "none"
    /\ Len(ev.turns) = 1
    /\ ev' = [ev EXCEPT !.op = "analyze_response",
                        !.out = analyze_response(ev.turns[1].response)]
    /\ UNCHANGED <<config, toxicity_model, pipeVars, gateVars, rs, ds, kb>>

\* evaluator.batch_evaluate(evaluations); np.min of an empty list raises
EBatchEvaluate ==
    /\ ev.op = "none"
    /\ ev' = [ev EXCEPT !.op = "batch_evaluate",
                        !.out = IF ev.turns = <<>>
                                THEN [raised |-> "ValueError"]
                                ELSE batch_evaluate(ev.turns)]
    /\ UNCHANGED <<config, toxicity_model, pipeVars, gateVars, rs, ds, kb>>

\* traits_analyzer.batch_analyze(responses); np.min of an empty list raises
\* if a trait is configured
EBatchAnalyze ==
    /\ ev.op = "none"
    /\ LET responses == [i \in DOMAIN ev.turns |-> ev.turns[i].response] IN
       ev' = [ev EXCEPT !.op = "batch_analyze",
                        !.out = IF responses = <<>>
                                   /\ config.psychometric.traits # {}
                                THEN [raised |-> "ValueError"]
                                ELSE batch_analyze(responses)]
    /\ UNCHANGED <<config, toxicity_model, pipeVars, gateVars, rs, ds, kb>>

(***************************************************************************)
(* CoTherapistPipeline  (pipeline.py)                                      *)
(***************************************************************************)
UserInputs == { KillMyself, <<"want", "to", "die">>, <<"feeling", "sad">> }

\* the locals of generate_response on entry
TurnStart(user_input, use_rag, use_reasoning, return_details) ==
    [user_input |-> user_input, use_rag |-> use_rag,
     use_reasoning |-> use_reasoning, return_details |-> return_details,
     input_safe |-> FALSE, safety_warning |-> NoText, safety_details |-> EmptyDict,
     context |-> NoContext, generated |-> NoText, response |-> NoText,
     reasoning_steps |-> <<>>,
     output_safe |-> FALSE, replacement |-> NoText, output_safety |-> EmptyDict,
     evaluated |-> FALSE, eval_context |-> EmptyDict, traits_analyzed |-> FALSE]

NoTurn == TurnStart(<<>>, FALSE, FALSE, FALSE)
NoResult == [kind |-> "none"]

\* setup(load_model, load_knowledge_base)
Setup ==
    /\ pc = "idle"
    /\ \E load_model \in BOOLEAN :
          is_model_loaded' = (is_model_loaded \/ load_model)
    /\ UNCHANGED <<config, toxicity_model, pc, turn, result, calls, gateVars, rs,
                 ds, ev, kb>>

\* generate_response, lines 100-101: the model is not loaded
GenerateResponseNotLoaded ==
    /\ pc = "idle"
    /\ ~is_model_loaded
    /\ result' = [kind |-> "raised", error |-> "RuntimeError"]
    /\ calls' = <<>>
    /\ turn' = NoTurn
    /\ UNCHANGED <<config, toxicity_model, is_model_loaded, pc, gateVars, rs,
                 ds, ev, kb>>

\* generate_response is entered
GenerateResponse ==
    /\ pc = "idle"
    /\ is_model_loaded
    /\ \E u \in UserInputs, use_rag \in BOOLEAN, use_reasoning \in BOOLEAN,
          return_details \in BOOLEAN :
          turn' = TurnStart(u, use_rag, use_reasoning, return_details)
    /\ pc' = "check_input"
    /\ result' = NoResult
    /\ calls' = <<>>
    /\ UNCHANGED <<config, toxicity_model, is_model_loaded, gateVars, rs,
                 ds, ev, kb>>

\* lines 110-115: the result of a turn whose input the gate blocked;
\* 'details' is the gate's signals, or None
BlockedResult(safety_warning, safety_details, return_details) ==
    [kind |-> "returned", response |-> safety_warning, safe |-> FALSE,
     crisis_detected |-> TRUE,
     details_kind |-> IF return_details THEN "dict" ELSE "None",
     details |-> IF return_details THEN safety_details ELSE EmptyDict]

\* a blocked input does not end the turn
AfterInputGateNoVeto(input_safe) == "retrieve"

\* lines 108-117: where the turn goes after the input gate
AfterInputGate(input_safe) == IF ~input_safe THEN "idle" ELSE "retrieve"

\* Step 1, lines 105-115
InputGate ==
    /\ pc = "check_input"
    /\ \E x \in ToxFor :
          LET r == check_input(turn.user_input, x) IN
          /\ calls' = Append(calls, [stage |-> "check_input",
                                     text |-> turn.user_input,
                                     admitted |-> r.safe,
                                     tox_calls |-> r.tox_calls])
          /\ turn' = [turn EXCEPT !.input_safe = r.safe,
                                  !.safety_warning = r.msg,
                                  !.safety_details = r.details]
          /\ pc' = AfterInputGate(r.safe)
          /\ IF ~r.safe
             THEN result' = BlockedResult(r.msg, r.details, turn.return_details)
             ELSE UNCHANGED result
    /\ UNCHANGED <<config, toxicity_model, is_model_loaded, gateVars, rs,
                 ds, ev, kb>>

\* Step 2, lines 117-121; rag_system.retrieve returns a list or raises
Retrieve ==
    /\ pc = "retrieve"
    /\ IF turn.use_rag /\ config.retrieval.enabled
       THEN \/ /\ \E c \in {<<>>, <<Chunk>>} :
                     turn' = [turn EXCEPT !.context = [some |-> TRUE, chunks |-> c]]
               /\ calls' = Append(calls, [stage |-> "retrieve",
                                          text |-> turn.user_input])
               /\ pc' = "generate"
               /\ UNCHANGED result
            \/ /\ calls' = Append(calls, [stage |-> "retrieve",
                                          text |-> turn.user_input])
               /\ pc' = "idle"
               /\ result' = [kind |-> "raised", error |-> "retrieve"]
               /\ UNCHANGED turn
       ELSE /\ pc' = "generate"
            /\ UNCHANGED <<turn, calls, result>>
    /\ UNCHANGED <<config, toxicity_model, is_model_loaded, gateVars, rs,
                 ds, ev, kb>>

\* Step 3, lines 123-130; a generation call returns a text or raises
Generate ==
    /\ pc = "generate"
    /\ IF turn.use_reasoning /\ config.agentic.enabled
       THEN \/ \E outs \in [analysis : AnalysisOuts, response : ResponseOuts,
                            critique : {<<"Looks", "good.">>,
                                        <<"Consider", "more", "warmth">>},
                            refined : RefinedOuts] :
                  LET reasoning_result ==
                          ReasonRun(ReasonStart(turn.user_input, turn.context, TRUE),
                                    outs)
                  IN /\ turn' = [turn EXCEPT
                                   !.generated = reasoning_result.final,
                                   !.response = reasoning_result.final,
                                   !.reasoning_steps = reasoning_result.steps]
                     /\ calls' = Append(calls,
                                   [stage |-> "reason", text |-> turn.user_input,
                                    gen_calls |-> reasoning_result.gen_calls])
                     /\ pc' = "check_output"
                     /\ UNCHANGED result
            \/ /\ calls' = Append(calls, [stage |-> "reason",
                                          text |-> turn.user_input,
                                          gen_calls |-> 1])
               /\ pc' = "idle"
               /\ result' = [kind |-> "raised", error |-> "generate"]
               /\ UNCHANGED turn
       ELSE \/ /\ \E g \in ResponseOuts :
                     turn' = [turn EXCEPT !.generated = g, !.response = g,
                                          !.reasoning_steps = <<>>]
               /\ calls' = Append(calls, [stage |-> "generate",
                                          text |-> turn.user_input,
                                          gen_calls |-> 1])
               /\ pc' = "check_output"
               /\ UNCHANGED result
            \/ /\ calls' = Append(calls, [stage |-> "generate",
                                          text |-> turn.user_input,
                                          gen_calls |-> 1])
               /\ pc' = "idle"
               /\ result' = [kind |-> "raised", error |-> "generate"]
               /\ UNCHANGED turn
    /\ UNCHANGED <<config, toxicity_model, is_model_loaded, gateVars, rs,
                 ds, ev, kb>>

\* a blocked output ends the turn as a blocked input does
AfterOutputGateVeto(output_safe) ==
    IF ~output_safe THEN "result" ELSE "add_safety_prefix"

\* lines 135-140: where the turn goes after the output gate
AfterOutputGate(output_safe) == "add_safety_prefix"

\* Step 4, lines 132-137
OutputGate ==
    /\ pc = "check_output"
    /\ \E x \in ToxFor :
          LET r == check_output(turn.response, x) IN
          /\ calls' = Append(calls, [stage |-> "check_output",
                                     text |-> turn.response,
                                     admitted |-> r.safe,
                                     tox_calls |-> r.tox_calls])
          /\ turn' = [turn EXCEPT !.output_safe = r.safe,
                                  !.replacement = r.msg,
                                  !.output_safety = r.details,
                                  !.response = IF ~r.safe THEN r.msg
                                               ELSE turn.response]
          /\ pc' = AfterOutputGate(r.safe)
    /\ UNCHANGED <<config, toxicity_model, is_model_loaded, result, gateVars, rs,
                 ds, ev, kb>>

\* Step 5, lines 139-140
InjectDisclaimer ==
    /\ pc = "add_safety_prefix"
    /\ calls' = Append(calls, [stage |-> "add_safety_prefix",
                               text |-> turn.response])
    /\ turn' = [turn EXCEPT !.response = add_safety_prefix(turn.response)]
    /\ pc' = "evaluate"
    /\ UNCHANGED <<config, toxicity_model, is_model_loaded, result, gateVars, rs,
                 ds, ev, kb>>

\* Step 6, lines 142-153
Evaluate ==
    /\ pc = "evaluate"
    /\ IF turn.return_details
       THEN LET eval_context ==
                    [safety_details |-> Merge(turn.safety_details,
                                              turn.output_safety),
                     reasoning_steps |-> turn.reasoning_steps]
            IN /\ calls' = Append(calls, [stage |-> "evaluate_response",
                                          text |-> turn.response])
               /\ turn' = [turn EXCEPT !.evaluated = TRUE,
                                       !.eval_context = eval_context]
       ELSE UNCHANGED <<calls, turn>>
    /\ pc' = "analyze_response"
    /\ UNCHANGED <<config, toxicity_model, is_model_loaded, result, gateVars, rs,
                 ds, ev, kb>>

\* Step 7, lines 155-158
AnalyzeTraits ==
    /\ pc = "analyze_response"
    /\ IF turn.return_details
       THEN /\ calls' = Append(calls, [stage |-> "analyze_response",
                                       text |-> turn.response])
            /\ turn' = [turn EXCEPT !.traits_analyzed = TRUE]
       ELSE UNCHANGED <<calls, turn>>
    /\ pc' = "result"
    /\ UNCHANGED <<config, toxicity_model, is_model_loaded, result, gateVars, rs,
                 ds, ev, kb>>

\* the safe flag forgets the output gate
ResultOfInputOnly(t) ==
    [kind |-> "returned", response |-> t.response,
     safe |-> t.input_safe,
     crisis_detected |-> Get(t.safety_details, "crisis_detected", FALSE),
     details_kind |-> IF t.return_details THEN "dict" ELSE "absent",
     details |-> EmptyDict]

\* lines 160-174: the result of a turn that ran to its end; the 'details'
\* key is present only if details were requested
ResultOf(t) ==
    [kind |-> "returned", response |-> t.response,
     safe |-> (t.input_safe /\ t.output_safe),
     crisis_detected |-> Get(t.safety_details, "crisis_detected", FALSE),
     details_kind |-> IF t.return_details THEN "dict" ELSE "absent",
     details |-> IF t.return_details
                 THEN [context_used |-> t.context,
                       reasoning_steps |-> t.reasoning_steps,
                       safety_checks |-> Merge(t.safety_details, t.output_safety),
                       evaluation |-> t.evaluated,
                       traits |-> t.traits_analyzed]
                 ELSE EmptyDict]

\* lines 160-177
ReturnResult ==
    /\ pc = "result"
    /\ result' = ResultOf(turn)
    /\ pc' = "idle"
    /\ UNCHANGED <<config, toxicity_model, is_model_loaded, turn, calls, gateVars, rs,
                 ds, ev, kb>>

(***************************************************************************)
(* CoTherapistPipeline.evaluate_dataset  (pipeline.py, lines 244-291).     *)
(* ds holds its locals; invoked lists the examples (by position) for which *)
(* generate_response was called; out is what the call gave its caller.     *)
(***************************************************************************)
NoDsResult == [kind |-> "none"]

\* no call of evaluate_dataset in progress
DsIdle ==
    [pc |-> "idle", test_data |-> <<>>, evaluations |-> <<>>,
     all_traits |-> <<>>, eval_stats |-> NoScore, responses |-> <<>>,
     invoked |-> <<>>, out |-> NoDsResult]

\* the test sets: empty, an admitted example, an example the input gate
\* blocks (crisis detection on), and the two together
Datasets ==
    { <<>>,
      <<[user |-> <<"feeling", "sad">>]>>,
      <<[user |-> <<"want", "to", "die">>]>>,
      <<[user |-> <<"feeling", "sad">>], [user |-> <<"want", "to", "die">>]>> }

\* the evaluator reads context.get('safety_details', {}) of the dictionary
\* it is given
DetailsAsContext(details) ==
    EvalContext(Get(details, "safety_details", EmptyDict))

\* evaluate_dataset goes on without the model
EvaluateDatasetNotLoadedProceeds ==
    /\ pc = "idle"
    /\ ds.pc = "idle"
    /\ ~is_model_loaded
    /\ \E d \in Datasets : ds' = [DsIdle EXCEPT !.pc = "loop", !.test_data = d]
    /\ UNCHANGED <<config, toxicity_model, pipeVars, gateVars, rs, ev, kb>>

\* lines 254-255: the model is not loaded
EvaluateDatasetNotLoaded ==
    /\ pc = "idle"
    /\ ds.pc = "idle"
    /\ ~is_model_loaded
    /\ ds' = [DsIdle EXCEPT !.out = [kind |-> "raised", error |-> "RuntimeError"]]
    /\ UNCHANGED <<config, toxicity_model, pipeVars, gateVars, rs, ev, kb>>

\* evaluate_dataset(test_data) is entered, lines 254-260
EvaluateDataset ==
    /\ pc = "idle"
    /\ ds.pc = "idle"
    /\ is_model_loaded
    /\ \E d \in Datasets : ds' = [DsIdle EXCEPT !.pc = "loop", !.test_data = d]
    /\ UNCHANGED <<config, toxicity_model, pipeVars, gateVars, rs, ev, kb>>

\* a call of generate_response made by evaluate_dataset begins
CallGenerateResponse(user_input, return_details) ==
    IF is_model_loaded
    THEN /\ turn' = TurnStart(user_input, TRUE, TRUE, return_details)
         /\ pc' = "check_input"
         /\ result' = NoResult
         /\ calls' = <<>>
    ELSE /\ result' = [kind |-> "raised", error |-> "RuntimeError"]
         /\ UNCHANGED <<turn, pc, calls>>

\* lines 262-266: generate_response(example['user'], return_details=True)
\* for the next example
DatasetCall ==
    /\ ds.pc = "loop"
    /\ pc = "idle"
    /\ Len(ds.evaluations) < Len(ds.test_data)
    /\ LET i == Len(ds.evaluations) + 1 IN
       /\ CallGenerateResponse(ds.test_data[i].user, TRUE)
       /\ ds' = [ds EXCEPT !.pc = "wait", !.invoked = Append(@, i)]
    /\ UNCHANGED <<config, toxicity_model, is_model_loaded, gateVars, rs, ev, kb>>

\* lines 268-275: the call has ended; an exception goes on to the caller of
\* evaluate_dataset, a result is recorded and its details are read
DatasetCollect ==
    /\ ds.pc = "wait"
    /\ pc = "idle"
    /\ result.kind # "none"
    /\ LET i == Len(ds.evaluations) + 1 IN
       IF result.kind = "raised"
       THEN ds' = [ds EXCEPT !.pc = "idle",
                             !.out = [kind |-> "raised", error |-> result.error]]
       ELSE LET evaluations ==
                    Append(ds.evaluations,
                           [query |-> ds.test_data[i].user,
                            response |-> result.response,
                            context |-> result.details])
            IN IF "traits" \notin DOMAIN result.details
               THEN ds' = [ds EXCEPT !.pc = "idle",
                                     !.evaluations = evaluations,
                                     !.out = [kind |-> "raised",
                                              error |-> "KeyError"]]
               ELSE ds' = [ds EXCEPT
                             !.pc = "loop",
                             !.evaluations = evaluations,
                             !.all_traits =
                                 IF result.details.traits
                                 THEN Append(@, result.details.traits) ELSE @]
    /\ UNCHANGED <<config, toxicity_model, pipeVars, gateVars, rs, ev, kb>>

\* lines 287-291
DatasetResult(d, trait_stats) ==
    [kind |-> "returned", evaluation |-> d.eval_stats, traits |-> trait_stats,
     num_examples |-> Len(d.test_data)]

\* lines 278-281: the statistics of the recorded evaluations; np.min of an
\* empty list raises; the second round of calls follows if a trait result
\* was collected
DatasetStats ==
    /\ ds.pc = "loop"
    /\ pc = "idle"
    /\ Len(ds.evaluations) = Len(ds.test_data)
    /\ IF ds.evaluations = <<>>
       THEN ds' = [ds EXCEPT !.pc = "idle",
                             !.out = [kind |-> "raised", error |-> "ValueError"]]
       ELSE ds' = [ds EXCEPT
                     !.eval_stats =
                         batch_evaluate([i \in DOMAIN ds.evaluations |->
                             [query |-> ds.evaluations[i].query,
                              response |-> ds.evaluations[i].response,
                              context |->
                                  DetailsAsContext(ds.evaluations[i].context)]]),
                     !.pc = IF ds.all_traits # <<>> THEN "regenerate"
                            ELSE "return"]
    /\ UNCHANGED <<config, toxicity_model, pipeVars, gateVars, rs, ev, kb>>

\* lines 283-284: generate_response(ex['user']) for the next example, again
DatasetRegenerateCall ==
    /\ ds.pc = "regenerate"
    /\ pc = "idle"
    /\ Len(ds.responses) < Len(ds.test_data)
    /\ LET i == Len(ds.responses) + 1 IN
       /\ CallGenerateResponse(ds.test_data[i].user, FALSE)
       /\ ds' = [ds EXCEPT !.pc = "regenerate_wait", !.invoked = Append(@, i)]
    /\ UNCHANGED <<config, toxicity_model, is_model_loaded, gateVars, rs, ev, kb>>

\* lines 283-284: result['response'] of the second call
DatasetRegenerateCollect ==
    /\ ds.pc = "regenerate_wait"
    /\ pc = "idle"
    /\ result.kind # "none"
    /\ IF result.kind = "raised"
       THEN ds' = [ds EXCEPT !.pc = "idle",
                             !.out = [kind |-> "raised", error |-> result.error]]
       ELSE ds' = [ds EXCEPT !.pc = "regenerate",
                             !.responses = Append(@, result.response)]
    /\ UNCHANGED <<config, toxicity_model, pipeVars, gateVars, rs, ev, kb>>

\* lines 285-291; trait_stats stays None if no trait result was collected
DatasetReturn ==
    /\ pc = "idle"
    /\ \/ ds.pc = "regenerate" /\ Len(ds.responses) = Len(ds.test_data)
       \/ ds.pc = "return"
    /\ ds' = [ds EXCEPT !.pc = "idle",
                        !.out = DatasetResult(ds,
                                    IF ds.pc = "regenerate"
                                    THEN batch_analyze(ds.responses)
                                    ELSE None)]
    /\ UNCHANGED <<config, toxicity_model, pipeVars, gateVars, rs, ev, kb>>

(***************************************************************************)
(* RAGSystem  (retrieval/rag_system.py).  kb holds the fields of the       *)
(* object (embedding_model, index, documents, metadata), the two persisted *)
(* artifacts of the one directory it saves to (index_file is faiss.index,  *)
(* record_file is documents.pkl) and the outcome of the last call.  A      *)
(* vector of the index is written as the chunk it embeds.                  *)
(***************************************************************************)
\* the chunks the knowledge base may hold in memory
MaxChunks == 4

\* RAGSystem.__init__, nothing persisted yet
KbNew ==
    [embedding_model |-> FALSE,
     index |-> [some |-> FALSE, vectors |-> <<>>],
     documents |-> <<>>, metadata |-> <<>>,
     index_file |-> [present |-> FALSE, vectors |-> <<>>],
     record_file |-> [present |-> FALSE, documents |-> <<>>, metadata |-> <<>>],
     last |-> [op |-> "none", outcome |-> "none"]]

\* RAGSystem.chunk_text: windows of chunk_size words, chunk_size -
\* chunk_overlap apart; range() raises on a step of 0 and is empty on a
\* negative one
chunk_text(text) ==
    LET chunk_size == config.retrieval.chunk_size
        stride == chunk_size - config.retrieval.chunk_overlap
        n == IF stride > 0 THEN (Len(text) + stride - 1) \div stride ELSE 0
    IN [raised |-> (stride = 0),
        chunks |-> [k \in 1..n |->
                      SubSeq(text, (k - 1) * stride + 1,
                             Min2((k - 1) * stride + chunk_size, Len(text)))]]

(***************************************************************************)
(* chunk_text alone, on a RAGSystem built from any chunk_size and          *)
(* chunk_overlap.  __init__ (lines 26-45) copies the two numbers and tests *)
(* nothing, so every configuration gives an object that can be called.     *)
(***************************************************************************)
MaxChunkSize == 3
MaxDocWords == 7

DocWords == <<"breathing", "helps", "with", "panic", "and", "sleep", "well">>

\* config['retrieval'] with every window size and overlap
ChunkConfigs ==
    [enabled : {TRUE}, chunk_size : 1..MaxChunkSize,
     chunk_overlap : 0..(MaxChunkSize + 1)]

\* text.split() of documents of 0..MaxDocWords words
ChunkDocs ==
    { [i \in 1..n |-> DocWords[((i - 1) % Len(DocWords)) + 1]] :
        n \in 0..MaxDocWords }

\* rag.chunk_text(text)
CChunkText ==
    /\ kb.pc = "chunk"
    /\ kb' = [kb EXCEPT !.pc = "chunked", !.out = chunk_text(kb.text)]
    /\ UNCHANGED <<config, toxicity_model, pipeVars, gateVars, rs, ds, ev>>

\* the document lists given to add_documents
DocumentBatches ==
    { << <<"breathing", "helps", "with", "panic">> >>,
      << <<"sleep", "well">> >>,
      << <<"breathing", "helps", "with", "panic">>, <<"sleep", "well">> >> }

RECURSIVE AllChunks(_, _)
\* lines 89-97: the chunks of the documents from position idx on, each with
\* the default metadata {"doc_id": idx} (positions from 0)
AllChunks(documents, idx) ==
    IF idx > Len(documents) THEN <<>>
    ELSE LET chunks == chunk_text(documents[idx]).chunks IN
         [k \in DOMAIN chunks |-> [chunk |-> chunks[k], doc_id |-> idx - 1]]
         \o AllChunks(documents, idx + 1)

(***************************************************************************)
(* retrieve running beside add_documents on one RAGSystem.  Each statement *)
(* of the two methods that reads or writes self.index, self.documents or   *)
(* self.metadata is one step; kb.add and kb.ret are the locals of the two  *)
(* calls.  index.search gives top_k ids, nearest first, padded with -1     *)
(* (at the largest distance) when the index holds fewer than top_k         *)
(* vectors.                                                                 *)
(***************************************************************************)
TopK == 2

\* config['retrieval'] with a similarity threshold (hundredths) of 0 or 0.7
InterleaveConfigs ==
    [enabled : {TRUE}, chunk_size : {3}, chunk_overlap : {1}, top_k : {TopK},
     similarity_threshold : {0, 70}]

NoAdd == [pc |-> "idle", all_chunks |-> <<>>, all_metadata |-> <<>>]
NoRetrieve == [pc |-> "idle", indices |-> <<>>, i |-> 1, results |-> <<>>,
               raised |-> FALSE]

KbShared ==
    [index |-> [some |-> FALSE, vectors |-> <<>>],
     documents |-> <<>>, metadata |-> <<>>, add |-> NoAdd, ret |-> NoRetrieve]

\* list[idx] of Python, idx counted from 0, negative idx from the end
PyItem(list, idx) ==
    IF idx >= Len(list) \/ idx < 0 - Len(list)
    THEN [raised |-> TRUE, value |-> <<>>]
    ELSE [raised |-> FALSE,
          value |-> IF idx >= 0 THEN list[idx + 1] ELSE list[Len(list) + idx + 1]]

\* the ids index.search may give for an index of n vectors
SearchResults(n) ==
    { ids \in [1..TopK -> (0..(n - 1)) \cup {-1}] :
        /\ \A a, b \in 1..TopK : (a < b /\ ids[a] # -1) => ids[a] # ids[b]
        /\ \A a, b \in 1..TopK : (a < b /\ ids[a] = -1) => ids[b] = -1
        /\ Cardinality({a \in 1..TopK : ids[a] # -1}) = Min2(TopK, n) }

\* line 146: similarity >= self.similarity_threshold; the similarity
\* 1 / (1 + dist) of a stored vector is anywhere in (0, 1], that of a -1
\* padding entry is 0 to the precision of the threshold
PassesThreshold(idx) ==
    IF config.retrieval.similarity_threshold <= 0 THEN {TRUE}
    ELSE IF idx = -1 THEN {FALSE}
    ELSE BOOLEAN

\* line 146: the result is kept
RetrieveKeeps(idx, passes) == passes /\ idx < Len(kb.documents)

\* add_documents, lines 81-105: chunking and embedding, before any write
IAddStart ==
    /\ kb.add.pc = "idle"
    /\ \E documents \in DocumentBatches :
          LET all == AllChunks(documents, 1) IN
          /\ Len(kb.index.vectors) + Len(all) <= MaxChunks
          /\ kb' = [kb EXCEPT !.add =
                       [pc |-> "index_add",
                        all_chunks |-> [k \in DOMAIN all |-> all[k].chunk],
                        all_metadata |-> [k \in DOMAIN all |-> all[k].doc_id]]]
    /\ UNCHANGED <<config, toxicity_model, pipeVars, gateVars, rs, ds, ev>>

\* lines 108-114: self.index is created if None, then index.add
IAddIndex ==
    /\ kb.add.pc = "index_add"
    /\ kb' = [kb EXCEPT !.index = [some |-> TRUE,
                                   vectors |-> kb.index.vectors \o kb.add.all_chunks],
                        !.add.pc = "extend_documents"]
    /\ UNCHANGED <<config, toxicity_model, pipeVars, gateVars, rs, ds, ev>>

\* line 115: self.documents.extend(all_chunks)
IAddDocuments ==
    /\ kb.add.pc = "extend_documents"
    /\ kb' = [kb EXCEPT !.documents = @ \o kb.add.all_chunks,
                        !.add.pc = "extend_metadata"]
    /\ UNCHANGED <<config, toxicity_model, pipeVars, gateVars, rs, ds, ev>>

\* line 116: self.metadata.extend(all_metadata), and the return
IAddMetadata ==
    /\ kb.add.pc = "extend_metadata"
    /\ kb' = [kb EXCEPT !.metadata = @ \o kb.add.all_metadata, !.add = NoAdd]
    /\ UNCHANGED <<config, toxicity_model, pipeVars, gateVars, rs, ds, ev>>

\* retrieve, lines 134-136: an absent index or an empty chunk list gives []
IRetrieveStart ==
    /\ kb.ret.pc \in {"idle", "done"}
    /\ kb' = [kb EXCEPT !.ret =
                 IF ~kb.index.some \/ Len(kb.documents) = 0
                 THEN [NoRetrieve EXCEPT !.pc = "done"]
                 ELSE [NoRetrieve EXCEPT !.pc = "search"]]
    /\ UNCHANGED <<config, toxicity_model, pipeVars, gateVars, rs, ds, ev>>

\* line 141: self.index.search(query_embedding, k)
IRetrieveSearch ==
    /\ kb.ret.pc = "search"
    /\ \E ids \in SearchResults(Len(kb.index.vectors)) :
          kb' = [kb EXCEPT !.ret.pc = "loop", !.ret.indices = ids]
    /\ UNCHANGED <<config, toxicity_model, pipeVars, gateVars, rs, ds, ev>>

\* lines 144-149: one round of the loop over the ids, or its end
IRetrieveLoop ==
    /\ kb.ret.pc = "loop"
    /\ IF kb.ret.i > Len(kb.ret.indices)
       THEN kb' = [kb EXCEPT !.ret.pc = "done"]
       ELSE LET idx == kb.ret.indices[kb.ret.i] IN
            \E passes \in PassesThreshold(idx) :
               IF RetrieveKeeps(idx, passes)
               THEN LET item == PyItem(kb.documents, idx) IN
                    IF item.raised
                    THEN kb' = [kb EXCEPT !.ret.pc = "done",
                                          !.ret.raised = TRUE]
                    ELSE kb' = [kb EXCEPT
                                  !.ret.results =
                                      Append(@, [text |-> item.value, idx |-> idx]),
                                  !.ret.i = @ + 1]
               ELSE kb' = [kb EXCEPT !.ret.i = @ + 1]
    /\ UNCHANGED <<config, toxicity_model, pipeVars, gateVars, rs, ds, ev>>

\* add_documents(documents) for documents that give at least one chunk
RagAddDocuments ==
    \E documents \in DocumentBatches :
       LET all == AllChunks(documents, 1)
           all_chunks == [k \in DOMAIN all |-> all[k].chunk]
           all_metadata == [k \in DOMAIN all |-> all[k].doc_id]
       IN /\ all # <<>>
          /\ Len(kb.documents) + Len(all) <= MaxChunks
          /\ Len(kb.index.vectors) + Len(all) <= MaxChunks
          /\ IF \E i \in DOMAIN documents : chunk_text(documents[i]).raised
             THEN kb' = [kb EXCEPT !.embedding_model = TRUE,
                                   !.last = [op |-> "add_documents",
                                             outcome |-> "ValueError"]]
             ELSE kb' = [kb EXCEPT
                           !.embedding_model = TRUE,
                           !.index = [some |-> TRUE,
                                      vectors |-> kb.index.vectors \o all_chunks],
                           !.documents = @ \o all_chunks,
                           !.metadata = @ \o all_metadata,
                           !.last = [op |-> "add_documents",
                                     outcome |-> "returned"]]
          /\ UNCHANGED <<config, toxicity_model, pipeVars, gateVars, rs, ds, ev>>

\* save_index(path), lines 159-185
RagSaveIndex ==
    /\ IF ~kb.index.some
       THEN kb' = [kb EXCEPT !.last = [op |-> "save_index",
                                       outcome |-> "nothing_saved"]]
       ELSE kb' = [kb EXCEPT
                     !.index_file = [present |-> TRUE,
                                     vectors |-> kb.index.vectors],
                     !.record_file = [present |-> TRUE,
                                      documents |-> kb.documents,
                                      metadata |-> kb.metadata],
                     !.last = [op |-> "save_index", outcome |-> "returned"]]
    /\ UNCHANGED <<config, toxicity_model, pipeVars, gateVars, rs, ds, ev>>

\* load_index(path), lines 187-213: a missing faiss.index is logged and the
\* call returns; a missing documents.pkl makes open() raise after self.index
\* has been replaced
RagLoadIndex ==
    /\ IF ~kb.index_file.present
       THEN kb' = [kb EXCEPT !.embedding_model = TRUE,
                             !.last = [op |-> "load_index",
                                       outcome |-> "returned"]]
       ELSE IF ~kb.record_file.present
       THEN kb' = [kb EXCEPT !.embedding_model = TRUE,
                             !.index = [some |-> TRUE,
                                        vectors |-> kb.index_file.vectors],
                             !.last = [op |-> "load_index",
                                       outcome |-> "FileNotFoundError"]]
       ELSE kb' = [kb EXCEPT !.embedding_model = TRUE,
                             !.index = [some |-> TRUE,
                                        vectors |-> kb.index_file.vectors],
                             !.documents = kb.record_file.documents,
                             !.metadata = kb.record_file.metadata,
                             !.last = [op |-> "load_index",
                                       outcome |-> "returned"]]
    /\ UNCHANGED <<config, toxicity_model, pipeVars, gateVars, rs, ds, ev>>

\* the environment: one of the two artifacts is removed from the directory
RagRemoveArtifact ==
    /\ \/ /\ kb.index_file.present
          /\ kb' = [kb EXCEPT !.index_file = KbNew.index_file,
                              !.last = [op |-> "remove", outcome |-> "index_file"]]
       \/ /\ kb.record_file.present
          /\ kb' = [kb EXCEPT !.record_file = KbNew.record_file,
                              !.last = [op |-> "remove", outcome |-> "record_file"]]
    /\ UNCHANGED <<config, toxicity_model, pipeVars, gateVars, rs, ds, ev>>

\* a new process: RAGSystem.__init__ over the directory as it is
RagNew ==
    /\ kb.last.op # "none"
    /\ kb' = [KbNew EXCEPT !.index_file = kb.index_file,
                           !.record_file = kb.record_file,
                           !.last = [op |-> "init", outcome |-> "returned"]]
    /\ UNCHANGED <<config, toxicity_model, pipeVars, gateVars, rs, ds, ev>>

(***************************************************************************)
(* Specifications.                                                         *)
(***************************************************************************)
\* no call of the evaluator or the analyzer so far
EvIdle == [op |-> "none", turns |-> <<>>, out |-> NoScore]

GateIdle ==
    /\ gop = "none"
    /\ gtext = <<>>
    /\ gtox = [ok |-> TRUE, score |-> 0]
    /\ gres = [text |-> <<>>]
    /\ gcount = 0

PipeIdle ==
    /\ is_model_loaded = FALSE
    /\ pc = "idle"
    /\ turn = NoTurn
    /\ result = NoResult
    /\ calls = <<>>

\* SafetyFilter.__init__: the toxicity model is loaded only if the filter is
\* enabled and detoxify can be imported
ToxicityModelInit == toxicity_model \in (IF config.safety.enabled THEN BOOLEAN
                                         ELSE {FALSE})

\* the pipeline under the configurations of the safety gate, the retriever
\* and the reasoning switch
Init ==
    /\ config \in [safety : {c \in SafetyConfigs :
                                c.crisis_keywords = DefaultSafety.crisis_keywords
                                /\ c.toxicity_threshold = 70},
                   agentic : {c \in AgenticConfigs :
                                c.chain_of_thought = c.self_critique_enabled
                                /\ c.reflection_enabled = c.enabled},
                   retrieval : RetrievalConfigs,
                   evaluation : {DefaultEvaluation},
                   psychometric : {DefaultPsychometric}]
    /\ ToxicityModelInit
    /\ PipeIdle
    /\ GateIdle
    /\ rs = RIdle
    /\ ds = DsIdle
    /\ ev = EvIdle
    /\ kb = KbNew

Next ==
    \/ Setup
    \/ GenerateResponseNotLoaded
    \/ GenerateResponse
    \/ InputGate
    \/ Retrieve
    \/ Generate
    \/ OutputGate
    \/ InjectDisclaimer
    \/ Evaluate
    \/ AnalyzeTraits
    \/ ReturnResult

Spec == Init /\ [][Next]_vars

\* the safety filter alone, under every safety configuration
InitGate ==
    /\ config \in [safety : SafetyConfigs, agentic : {DefaultAgentic},
                   retrieval : {DefaultRetrieval},
                   evaluation : {DefaultEvaluation},
                   psychometric : {DefaultPsychometric}]
    /\ ToxicityModelInit
    /\ PipeIdle
    /\ gop = "none"
    /\ gtext \in InputTexts \cup OutputTexts
    /\ gtox \in ToxFor
    /\ gres = [text |-> <<>>]
    /\ gcount = 0
    /\ rs = RIdle
    /\ ds = DsIdle
    /\ ev = EvIdle
    /\ kb = KbNew

NextGate ==
    \/ GCheckInput
    \/ GCheckOutput
    \/ GAddPrefix
    \/ GAddPrefixAgain

SpecGate == InitGate /\ [][NextGate]_vars

\* the reasoning agent alone, under every agentic configuration
InitReason ==
    /\ config \in [safety : {DefaultSafety}, agentic : AgenticConfigs,
                   retrieval : {DefaultRetrieval},
                   evaluation : {DefaultEvaluation},
                   psychometric : {DefaultPsychometric}]
    /\ toxicity_model = FALSE
    /\ PipeIdle
    /\ GateIdle
    /\ rs = RIdle
    /\ ds = DsIdle
    /\ ev = EvIdle
    /\ kb = KbNew

NextReason ==
    \/ RCall
    \/ RStep

\* reason() is synchronous code: once entered, it runs on
SpecReason == InitReason /\ [][NextReason]_vars /\ WF_vars(RStep)

\* dataset mode: evaluate_dataset and the turns it runs, with and without
\* the reasoning agent
InitDataset ==
    /\ config \in [safety : {DefaultSafety},
                   agentic : {[DefaultAgentic EXCEPT !.enabled = e] :
                                 e \in BOOLEAN},
                   retrieval : {DefaultRetrieval},
                   evaluation : {DefaultEvaluation},
                   psychometric : {DefaultPsychometric}]
    /\ toxicity_model = FALSE
    /\ PipeIdle
    /\ GateIdle
    /\ rs = RIdle
    /\ ds = DsIdle
    /\ ev = EvIdle
    /\ kb = KbNew

NextDataset ==
    \/ Setup
    \/ GenerateResponseNotLoaded
    \/ EvaluateDatasetNotLoaded
    \/ EvaluateDataset
    \/ DatasetCall
    \/ InputGate
    \/ Retrieve
    \/ Generate
    \/ OutputGate
    \/ InjectDisclaimer
    \/ Evaluate
    \/ AnalyzeTraits
    \/ ReturnResult
    \/ DatasetCollect
    \/ DatasetStats
    \/ DatasetRegenerateCall
    \/ DatasetRegenerateCollect
    \/ DatasetReturn

SpecDataset == InitDataset /\ [][NextDataset]_vars

\* the knowledge base alone: its calls and the directory it persists to
InitRag ==
    /\ config \in [safety : {DefaultSafety}, agentic : {DefaultAgentic},
                   retrieval : {DefaultRetrieval},
                   evaluation : {DefaultEvaluation},
                   psychometric : {DefaultPsychometric}]
    /\ toxicity_model = FALSE
    /\ PipeIdle
    /\ GateIdle
    /\ rs = RIdle
    /\ ds = DsIdle
    /\ ev = EvIdle
    /\ kb = KbNew

NextRag ==
    \/ RagAddDocuments
    \/ RagSaveIndex
    \/ RagLoadIndex
    \/ RagRemoveArtifact
    \/ RagNew

SpecRag == InitRag /\ [][NextRag]_vars

\* one thread in add_documents, one in retrieve
InitInterleave ==
    /\ config \in [safety : {DefaultSafety}, agentic : {DefaultAgentic},
                   retrieval : InterleaveConfigs,
                   evaluation : {DefaultEvaluation},
                   psychometric : {DefaultPsychometric}]
    /\ toxicity_model = FALSE
    /\ PipeIdle
    /\ GateIdle
    /\ rs = RIdle
    /\ ds = DsIdle
    /\ ev = EvIdle
    /\ kb = KbShared

NextInterleave ==
    \/ IAddStart
    \/ IAddIndex
    \/ IAddDocuments
    \/ IAddMetadata
    \/ IRetrieveStart
    \/ IRetrieveSearch
    \/ IRetrieveLoop

SpecInterleave == InitInterleave /\ [][NextInterleave]_vars

\* evaluate_dataset by a pipeline whose safety filter has a toxicity model
InitDatasetTox ==
    /\ config \in [safety : {DefaultSafety},
                   agentic : {[DefaultAgentic EXCEPT !.enabled = e] :
                                 e \in BOOLEAN},
                   retrieval : {DefaultRetrieval},
                   evaluation : {DefaultEvaluation},
                   psychometric : {DefaultPsychometric}]
    /\ toxicity_model = TRUE
    /\ PipeIdle
    /\ GateIdle
    /\ rs = RIdle
    /\ ds = DsIdle
    /\ ev = EvIdle
    /\ kb = KbNew

SpecDatasetTox == InitDatasetTox /\ [][NextDataset]_vars

\* chunk_text called on a RAGSystem of any window size and overlap
InitChunk ==
    /\ config \in [safety : {DefaultSafety}, agentic : {DefaultAgentic},
                   retrieval : ChunkConfigs,
                   evaluation : {DefaultEvaluation},
                   psychometric : {DefaultPsychometric}]
    /\ toxicity_model = FALSE
    /\ PipeIdle
    /\ GateIdle
    /\ rs = RIdle
    /\ ds = DsIdle
    /\ ev = EvIdle
    /\ kb \in { [pc |-> "chunk", text |-> t,
                 out |-> [raised |-> FALSE, chunks |-> <<>>]] : t \in ChunkDocs }

NextChunk == CChunkText

SpecChunk == InitChunk /\ [][NextChunk]_vars

\* reason() repeated by agents with different observation switches
InitObserve ==
    /\ config \in [safety : {DefaultSafety},
                   agentic : {c \in AgenticConfigs : c.enabled},
                   retrieval : {DefaultRetrieval},
                   evaluation : {DefaultEvaluation},
                   psychometric : {DefaultPsychometric}]
    /\ toxicity_model = FALSE
    /\ PipeIdle
    /\ GateIdle
    /\ rs \in { [pc |-> "observe", query |-> q, context |-> c, G |-> g,
                 runs |-> <<>>] :
                 q \in {<<"feeling", "sad">>, <<"can", "you", "help", "me", "you?">>},
                 c \in Contexts, g \in Generators }
    /\ ds = DsIdle
    /\ ev = EvIdle
    /\ kb = KbNew

NextObserve ==
    \/ OReason
    \/ OReconfigure

SpecObserve == InitObserve /\ [][NextObserve]_vars

\* the reflection stage alone, over responses of every length
InitReflect ==
    /\ config \in [safety : {DefaultSafety}, agentic : {DefaultAgentic},
                   retrieval : {DefaultRetrieval},
                   evaluation : {DefaultEvaluation},
                   psychometric : {DefaultPsychometric}]
    /\ toxicity_model = FALSE
    /\ PipeIdle
    /\ GateIdle
    /\ rs \in { [pc |-> "reflect_call", response |-> r,
                 query |-> <<"feeling", "sad">>, reflection |-> <<>>] :
                 r \in ReflectResponses }
    /\ ds = DsIdle
    /\ ev = EvIdle
    /\ kb = KbNew

NextReflect == RReflect

SpecReflect == InitReflect /\ [][NextReflect]_vars

\* the evaluator and the analyzer alone, under the metric and trait
\* configurations
InitEval ==
    /\ config \in [safety : {DefaultSafety}, agentic : {DefaultAgentic},
                   retrieval : {DefaultRetrieval},
                   evaluation : [metrics : MetricSets],
                   psychometric : PsychometricConfigs]
    /\ toxicity_model = FALSE
    /\ PipeIdle
    /\ GateIdle
    /\ rs = RIdle
    /\ ds = DsIdle
    /\ ev \in {[op |-> "none", turns |-> ts, out |-> NoScore] : ts \in EvalInputs}
    /\ kb = KbNew

NextEval ==
    \/ EEvaluateResponse
    \/ EAnalyzeResponse
    \/ EBatchEvaluate
    \/ EBatchAnalyze

SpecEval == InitEval /\ [][NextEval]_vars

(***************************************************************************)
(* Properties of a turn  (specification Spec).                             *)
(***************************************************************************)
Stages == [i \in DOMAIN calls |-> calls[i].stage]

Count(stage) == Cardinality({i \in DOMAIN calls : calls[i].stage = stage})

\* the input gate was consulted in this turn and did not admit the text
InputBlocked ==
    /\ Len(calls) >= 1
    /\ calls[1].stage = "check_input"
    /\ ~calls[1].admitted

\* a turn whose input was admitted has returned its result
TurnFinished ==
    /\ pc = "idle"
    /\ result.kind = "returned"
    /\ Len(calls) >= 1
    /\ calls[1].stage = "check_input"
    /\ calls[1].admitted

\* C1: a turn whose input the gate does not admit returns at once, with
\* safe = false and the gate's blocking message as the response, and no
\* other stage (retrieval, generation or reasoning, output gate, disclaimer,
\* evaluation, trait analysis) is called in that turn.
C1_BlockedInputEndsTurn ==
    InputBlocked =>
        /\ pc = "idle"
        /\ result.kind = "returned"
        /\ result.safe = FALSE
        /\ result.response =
              (IF Get(turn.safety_details, "crisis_detected", FALSE)
               THEN config.safety.emergency_response ELSE ToxicInputMessage)
        /\ Stages = <<"check_input">>
        /\ ~turn.evaluated
        /\ ~turn.traits_analyzed

\* a blocked turn that asked for details has returned
C1_Witness ==
    /\ InputBlocked
    /\ result.kind = "returned"
    /\ turn.return_details
    /\ turn.use_rag /\ config.retrieval.enabled
    /\ result.response = ToxicInputMessage

\* C2: in a turn whose input was admitted the output gate is consulted once,
\* on the generated response; a block replaces the response by the gate's
\* replacement and the turn goes on: the disclaimer is injected into the
\* (possibly replaced) response, evaluation and trait analysis follow, only
\* if details are requested, on the final text, and nothing goes through the
\* output gate a second time.
C2_OutputBlockSubstitutes ==
    /\ Count("check_output") <= 1
    /\ TurnFinished =>
          LET n == Len(calls)
              k == CHOOSE i \in DOMAIN calls : calls[i].stage = "check_output"
              tail == IF turn.return_details
                      THEN <<"evaluate_response", "analyze_response">> ELSE <<>>
          IN /\ Count("check_output") = 1
             /\ k > 1
             /\ calls[k - 1].stage \in {"reason", "generate"}
             /\ calls[k].text = turn.generated
             /\ SubSeq(Stages, k, n) = <<"check_output", "add_safety_prefix">> \o tail
             /\ calls[k + 1].text = (IF calls[k].admitted THEN turn.generated
                                     ELSE ReplacementMessage)
             /\ result.response = add_safety_prefix(calls[k + 1].text)
             /\ \A i \in (k + 2)..n : calls[i].text = result.response

\* the output gate blocked, details were requested, the turn has returned
C2_Witness ==
    /\ TurnFinished
    /\ \E i \in DOMAIN calls : calls[i].stage = "check_output" /\ ~calls[i].admitted
    /\ turn.return_details
    /\ result.response = prefix \o ReplacementMessage

\* C3: the safe flag of a returned result is true exactly when the input gate
\* admitted the user text and the output gate admitted the generated response.
C3_SafeFlag ==
    result.kind = "returned" =>
        (result.safe <=>
            /\ \E i \in DOMAIN calls :
                  calls[i].stage = "check_input" /\ calls[i].admitted
            /\ \E i \in DOMAIN calls :
                  calls[i].stage = "check_output" /\ calls[i].admitted)

\* input admitted, output blocked and replaced: the result is not safe
C3_Witness ==
    /\ TurnFinished
    /\ \E i \in DOMAIN calls : calls[i].stage = "check_output" /\ ~calls[i].admitted
    /\ result.response = prefix \o ReplacementMessage
    /\ ~result.safe

\* C4: the crisis_detected field of a returned result equals the
\* crisis_detected signal of the input gate for that turn (false if the gate
\* recorded none), whether the input was admitted or blocked.
C4_CrisisFlagIsInputSignal ==
    result.kind = "returned" =>
        result.crisis_detected = Get(turn.safety_details, "crisis_detected", FALSE)

(***************************************************************************)
(* Properties of the safety filter  (specification SpecGate).              *)
(***************************************************************************)
MatchesSuicide(t) ==
    \E k \in DOMAIN suicide_patterns : Search(suicide_patterns[k], Lower(t))

MatchesSelfHarm(t) ==
    \E k \in DOMAIN self_harm_patterns : Search(self_harm_patterns[k], Lower(t))

MatchesKeyword(t) ==
    \E k \in DOMAIN config.safety.crisis_keywords :
        Contains(Lower(t), Lower(config.safety.crisis_keywords[k]))

MatchesCrisis(t) == MatchesSuicide(t) \/ MatchesSelfHarm(t) \/ MatchesKeyword(t)

\* check_input answered with the emergency message and evaluated no toxicity
CrisisBlock ==
    /\ gres.safe = FALSE
    /\ Get(gres.details, "crisis_detected", FALSE) = TRUE
    /\ Get(gres.details, "crisis_type", None) \in
          {"suicide_risk", "self_harm_risk", "crisis_keyword_match"}
    /\ gres.msg = config.safety.emergency_response
    /\ gres.tox_calls = 0
    /\ "toxicity_score" \notin DOMAIN gres.details

\* C5 as stated: with the safety gate enabled, every text that matches a
\* suicide pattern, a self-harm pattern or a configured keyword is blocked
\* as a crisis and its toxicity is not evaluated.
C5_CrisisAlwaysBlocks ==
    (gop = "check_input" /\ config.safety.enabled /\ MatchesCrisis(gtext))
        => CrisisBlock

\* C5, amended: with the safety gate enabled and crisis detection switched
\* on, every text that matches a suicide pattern, a self-harm pattern or a
\* configured keyword is blocked with crisis_detected = true, a crisis_type
\* and the emergency message, and its toxicity is not evaluated.
C5_CrisisBlocksWhenDetectionOn ==
    (/\ gop = "check_input"
     /\ config.safety.enabled
     /\ config.safety.crisis_detection
     /\ MatchesCrisis(gtext))
        => CrisisBlock

\* a self-harm text that the provider would score as toxic is blocked as a crisis
C5_Witness ==
    /\ gop = "check_input"
    /\ config.safety.enabled
    /\ config.safety.crisis_detection
    /\ MatchesSelfHarm(gtext) /\ ~MatchesSuicide(gtext) /\ ~MatchesKeyword(gtext)
    /\ toxicity_model
    /\ gtox.ok /\ gtox.score > config.safety.toxicity_threshold
    /\ CrisisBlock

\* C6: for "I want to kill myself" check_input blocks and reports
\* crisis_type = "suicide_risk" (the suicide-intent family matches first).
C6_KillMyselfIsSuicideRisk ==
    (/\ gop = "check_input"
     /\ gtext = KillMyself
     /\ config.safety.enabled
     /\ config.safety.crisis_detection)
        => /\ gres.safe = FALSE
           /\ Get(gres.details, "crisis_type", None) = "suicide_risk"

\* the score the text counts with: the provider's, or 0 without a provider
\* or when its call fails
CountedScore == IF toxicity_model /\ gtox.ok THEN gtox.score ELSE 0

\* C7: a text that matches no crisis pattern and no configured keyword and
\* whose toxicity is not above the threshold is admitted with no message;
\* without a provider, or when the provider's call fails, the score counts
\* as 0 and toxicity does not block.
C7_CleanInputAdmitted ==
    gop = "check_input" =>
        /\ (~MatchesCrisis(gtext)
            /\ CountedScore <= config.safety.toxicity_threshold)
              => (gres.safe = TRUE /\ gres.msg = NoText)
        /\ (~MatchesCrisis(gtext) /\ (~toxicity_model \/ ~gtox.ok))
              => /\ gres.safe = TRUE
                 /\ Get(gres.details, "toxicity_score", 0) = 0

\* the provider is loaded and its call failed on a clean text
C7_Witness ==
    /\ gop = "check_input"
    /\ gtext = <<"feeling", "sad">>
    /\ config.safety.enabled
    /\ config.safety.crisis_detection
    /\ toxicity_model
    /\ ~gtox.ok
    /\ gres.safe = TRUE
    /\ "toxicity_score" \in DOMAIN gres.details

HasMedicalPhrase(t) == ContainsAny(Lower(t), medical_red_flags)

\* texts that hold no medical-authority phrase
PlainTexts == { <<>>, <<"I", "hear", "you">> }

\* C8: a medical-authority phrase in the output never changes the decision
\* of check_output: it is the decision for a text of the same toxicity
\* without such a phrase; the phrase is recorded in medical_advice_flag only.
C8_MedicalFlagNeverBlocks ==
    gop = "check_output" =>
        /\ \A t \in PlainTexts :
              LET plain == check_output(t, gtox) IN
              /\ gres.safe = plain.safe
              /\ gres.msg = plain.msg
              /\ [k \in (DOMAIN gres.details) \ {"medical_advice_flag"} |->
                     gres.details[k]] = plain.details
        /\ ("medical_advice_flag" \in DOMAIN gres.details)
              <=> (config.safety.enabled /\ HasMedicalPhrase(gtext))

\* an output with a medical-authority phrase and low toxicity is admitted
C8_Witness ==
    /\ gop = "check_output"
    /\ toxicity_model
    /\ gtox.ok /\ gtox.score = 70
    /\ HasMedicalPhrase(gtext)
    /\ Get(gres.details, "medical_advice_flag", <<>>) = <<"stop", "taking">>
    /\ gres.safe = TRUE

HasAdvice(t) == ContainsAny(Lower(t), advice_indicators)

\* C9: add_safety_prefix is idempotent: applied to its own result it returns
\* that result; it prepends the disclaimer when the response holds an advice
\* indicator and does not begin with the disclaimer, and never puts a second
\* disclaimer in front of one.
C9_PrefixIdempotent ==
    gop = "add_safety_prefix" =>
        /\ gcount >= 2 => gres.text = gtext
        /\ gcount = 1 =>
              /\ gres.text = (IF HasAdvice(gtext) /\ ~StartsWith(gtext, prefix)
                              THEN prefix \o gtext ELSE gtext)
              /\ StartsWith(gres.text, prefix \o prefix)
                    => StartsWith(gtext, prefix \o prefix)

\* the second application, to a response that got the disclaimer
C9_Witness ==
    /\ gop = "add_safety_prefix"
    /\ gcount = 2
    /\ gtext = prefix \o <<"You", "should", "rest">>
    /\ gres.text = gtext

(***************************************************************************)
(* Properties of the reasoning agent  (specification SpecReason).          *)
(***************************************************************************)
Kinds == [i \in DOMAIN rs.steps |-> rs.steps[i].step]

IsPrefixOf(a, b) == Len(a) <= Len(b) /\ SubSeq(b, 1, Len(a)) = a

\* [situation_analysis]? needs_assessment initial_response
\* [self_critique [refined_response]?]? [reflection]?
GrammarWords ==
    { a \o <<"needs_assessment", "initial_response">> \o c \o f :
        a \in {<<>>, <<"situation_analysis">>},
        c \in {<<>>, <<"self_critique">>, <<"self_critique", "refined_response">>},
        f \in {<<>>, <<"reflection">>} }

\* a run of reason() with agentic reasoning enabled
InRun == rs.pc # "idle" /\ config.agentic.enabled

TraceInGrammar ==
    InRun =>
        /\ \E w \in GrammarWords : IsPrefixOf(Kinds, w)
        /\ \A i, j \in DOMAIN rs.steps : Kinds[i] = Kinds[j] => i = j
        /\ rs.pc = "done" =>
              /\ Kinds \in GrammarWords
              /\ Len(rs.steps) >= 2
              /\ Len(rs.steps) <= 6
              /\ ("situation_analysis" \in {Kinds[i] : i \in DOMAIN Kinds})
                    <=> config.agentic.chain_of_thought
              /\ ("self_critique" \in {Kinds[i] : i \in DOMAIN Kinds})
                    <=> config.agentic.self_critique_enabled
              /\ ("reflection" \in {Kinds[i] : i \in DOMAIN Kinds})
                    <=> config.agentic.reflection_enabled

\* within a run an entry is only ever added at the end
TraceAppendOnly ==
    (InRun /\ rs.pc # "done") =>
        /\ IsPrefixOf(rs.steps, rs'.steps)
        /\ Len(rs'.steps) <= Len(rs.steps) + 1

StepsOf(kind) == {i \in DOMAIN rs.steps : rs.steps[i].step = kind}

\* the critiques of the model that hold "needs improvement" or "consider",
\* in any case, anywhere in the text
TriggeringCritiques ==
    { <<"Consider", "more", "warmth">>, <<"It", "NEEDS", "improvement">>,
      <<"considerate", "reply">> }

\* the run's critique asked for a refinement
RefinementTriggered ==
    /\ config.agentic.self_critique_enabled
    /\ \E i \in StepsOf("self_critique") :
          rs.steps[i].content \in TriggeringCritiques

\* C11: in a finished run of reason() a refined_response entry exists, and
\* its content is the final response, exactly when self-critique is enabled
\* and the critique holds "needs improvement" or "consider" (any case, as a
\* substring); otherwise there is no refined_response entry and the final
\* response is the content of the initial_response entry.
C11_RefinementTrigger ==
    (rs.pc = "done" /\ config.agentic.enabled) =>
        /\ StepsOf("initial_response") # {}
        /\ (StepsOf("refined_response") # {}) <=> RefinementTriggered
        /\ RefinementTriggered =>
              \A i \in StepsOf("refined_response") :
                  rs.final = rs.steps[i].content
        /\ ~RefinementTriggered =>
              \A i \in StepsOf("initial_response") :
                  rs.final = rs.steps[i].content

\* the critique "considerate reply" led to a refined final response
C11_Witness ==
    /\ rs.pc = "done"
    /\ config.agentic.enabled
    /\ rs.critique = <<"considerate", "reply">>
    /\ StepsOf("refined_response") # {}
    /\ rs.final = <<"I", "understand,", "you", "could", "rest">>
    /\ rs.final # rs.initial

\* the queries of the model in which no need rule fires
NoNeedQueries == { <<"hello", "there">> }

\* C20: for an input in which no need rule fires, the content of the
\* needs_assessment entry is "general_support".
C20_NoNeedIsGeneralSupport ==
    (InRun /\ rs.query \in NoNeedQueries) =>
        \A i \in StepsOf("needs_assessment") :
            rs.steps[i].content = <<"general_support">>

(***************************************************************************)
(* Properties of the evaluator and the analyzer  (specification SpecEval). *)
(***************************************************************************)
TraitFields == {"agreeableness", "conscientiousness", "emotional_stability",
                "openness", "extraversion"}

\* C16: for every query, response and side signals (the empty string, any
\* number of rule hits, any toxicity score included) each of the six
\* sub-scores and the overall score of evaluate_response lies in [0,1], and
\* each of the five trait scores of analyze_response lies in [0,1].
C16_ScoresInRange ==
    /\ ev.op = "evaluate_response" =>
          /\ \A m \in SubScores : ev.out[m] >= 0 /\ ev.out[m] <= 1000
          /\ ev.out.overall >= 0 /\ ev.out.overall <= 20 * 1000
    /\ ev.op = "analyze_response" =>
          \A t \in TraitFields : ev.out[t] >= 0 /\ ev.out[t] <= 1000

\* four red-flag phrases, a crisis without resource language and toxicity 1.0:
\* the deductions go below 0 and the safety sub-score is 0
C16_Witness ==
    /\ ev.op = "evaluate_response"
    /\ "safety" \in config.evaluation.metrics
    /\ Hits(Lower(ev.turns[1].response), safety_red_flags) = 4
    /\ Get(ev.turns[1].context.safety_details, "toxicity_score", 0) = 100
    /\ safety_raw(ev.turns[1].response, ev.turns[1].context) < 0
    /\ ev.out.safety = 0

\* the term of a metric in the overall score if the metric is configured
ConfiguredTerm(m, w) ==
    IF m \in config.evaluation.metrics THEN w * ev.out[m] ELSE 0

\* C17 as stated: the overall score is the weighted sum over all six
\* sub-scores as returned, a metric that is not configured entering the sum
\* with its default 0.5 (weights .25 .15 .15 .25 .10 .10, here twentieths).
C17_DefaultBeforeWeighting ==
    ev.op = "evaluate_response" =>
        ev.out.overall =
            5 * ev.out.empathy + 3 * ev.out.relevance
            + 3 * ev.out.informativeness + 5 * ev.out.safety
            + 2 * ev.out.therapeutic_alliance + 2 * ev.out.clinical_accuracy

\* C17, amended: the overall score is the weighted sum over the sub-scores
\* of the configured metrics only; a metric that is not configured is
\* returned as 0.5 and contributes nothing to the overall score.
C17_OverallOverConfigured ==
    ev.op = "evaluate_response" =>
        /\ ev.out.overall =
              ConfiguredTerm("empathy", 5) + ConfiguredTerm("relevance", 3)
              + ConfiguredTerm("informativeness", 3) + ConfiguredTerm("safety", 5)
              + ConfiguredTerm("therapeutic_alliance", 2)
              + ConfiguredTerm("clinical_accuracy", 2)
        /\ \A m \in SubScores \ config.evaluation.metrics : ev.out[m] = 500

\* only empathy and safety are configured: the other four are returned as
\* 0.5 and the overall score is at most 0.5
C17_Witness ==
    /\ ev.op = "evaluate_response"
    /\ config.evaluation.metrics = {"empathy", "safety"}
    /\ ev.out.relevance = 500
    /\ ev.out.empathy = 800
    /\ ev.out.safety = 1000
    /\ ev.out.overall = 5 * 800 + 5 * 1000

\* C18: batch_evaluate over a non-empty list of turns returns an entry for
\* exactly the configured metrics (and the derived overall score), and in
\* every entry min <= mean <= max.
C18_BatchStatsForConfiguredMetrics ==
    (ev.op = "batch_evaluate" /\ ev.turns # <<>>) =>
        /\ (DOMAIN ev.out) \ {"overall"} = config.evaluation.metrics
        /\ \A m \in DOMAIN ev.out :
              /\ ev.out[m].n * ev.out[m].min <= ev.out[m].sum
              /\ ev.out[m].sum <= ev.out[m].n * ev.out[m].max

(***************************************************************************)
(* Properties of the degenerate mode  (specification Spec).                *)
(***************************************************************************)
\* the turn is past its generation step and ran without agentic reasoning
DegenerateTurn ==
    /\ pc \in {"check_output", "add_safety_prefix", "evaluate",
               "analyze_response", "result"}
    /\ ~(turn.use_reasoning /\ config.agentic.enabled)

\* what the generation capability may return to the calls of reason()
ReasonOuts ==
    [analysis : AnalysisOuts, response : ResponseOuts, critique : CritiqueOuts,
     refined : RefinedOuts]

\* C12: a turn that runs with agentic reasoning disabled (by configuration
\* or by use_reasoning = false) makes exactly one call of the generation
\* capability and has an empty reasoning trace, in the turn and in the
\* details it returns; and reason() of a disabled agent (with its model
\* attached, as in every turn) makes exactly one generation call, returns
\* that text with an empty trace and reports reasoning_used = false.
C12_DegenerateMode ==
    /\ DegenerateTurn =>
          /\ Count("generate") = 1
          /\ Count("reason") = 0
          /\ \A i \in DOMAIN calls :
                calls[i].stage = "generate" => calls[i].gen_calls = 1
          /\ turn.reasoning_steps = <<>>
    /\ ( /\ TurnFinished
         /\ ~(turn.use_reasoning /\ config.agentic.enabled)
         /\ turn.return_details ) =>
          result.details.reasoning_steps = <<>>
    /\ ~config.agentic.enabled =>
          \A c \in Contexts, outs \in ReasonOuts :
             LET r == ReasonRun(ReasonStart(turn.user_input, c, TRUE), outs) IN
             /\ r.gen_calls = 1
             /\ r.final = outs.response
             /\ r.steps = <<>>
             /\ r.reasoning_used = FALSE

\* a turn with use_reasoning = true under a configuration that disables the
\* agent has generated its response
C12_Witness ==
    /\ DegenerateTurn
    /\ turn.use_reasoning
    /\ ~config.agentic.enabled
    /\ Count("generate") = 1
    /\ turn.generated \in ResponseOuts

(***************************************************************************)
(* Properties of the dataset mode  (specification SpecDataset).            *)
(***************************************************************************)
PreconditionError == [kind |-> "raised", error |-> "RuntimeError"]

\* C13: while setup has not loaded the model, generate_response and
\* evaluate_dataset end at once with the precondition error: no stage of the
\* pipeline is called, no turn is begun by either of them (nothing is tried
\* again), and nothing of the pipeline but the outcome of the call changes.
C13_NotLoadedFails ==
    /\ [](~is_model_loaded =>
            /\ pc = "idle"
            /\ calls = <<>>
            /\ turn = NoTurn
            /\ ds.pc = "idle"
            /\ ds.invoked = <<>>
            /\ result \in {NoResult, PreconditionError}
            /\ ds.out \in {NoDsResult, PreconditionError})
    /\ [][(~is_model_loaded /\ ~is_model_loaded') =>
            /\ UNCHANGED <<config, toxicity_model, pc, turn, calls, gateVars,
                           rs, ev, kb>>
            /\ ds' = [ds EXCEPT !.out = ds'.out]]_vars

\* both entry points were called before setup
C13_Witness ==
    /\ ~is_model_loaded
    /\ result = PreconditionError
    /\ ds.out = PreconditionError

\* C14: a blocked input is never an exception: the turn returns a result
\* with safe = false, and a call of evaluate_dataset that has just run a
\* turn whose input was blocked does not end with an exception.
C14_BlockNeverAnException ==
    /\ (InputBlocked /\ pc = "idle") =>
          (result.kind = "returned" /\ result.safe = FALSE)
    /\ (InputBlocked /\ ds.pc = "idle" /\ ds.invoked # <<>>
          /\ ds.out.kind # "none") =>
          ds.out.kind = "returned"

\* the number of calls of generate_response for the example at position i
InvokedFor(i) == Cardinality({k \in DOMAIN ds.invoked : ds.invoked[k] = i})

\* C15: evaluate_dataset calls generate_response at most once for an
\* example, exactly once for each when it returns, and the responses given
\* to the trait statistics are the ones the evaluation statistics are over.
C15_OncePerExample ==
    /\ \A i \in DOMAIN ds.test_data : InvokedFor(i) <= 1
    /\ ds.out.kind = "returned" =>
          /\ \A i \in DOMAIN ds.test_data : InvokedFor(i) = 1
          /\ ds.responses =
                [i \in DOMAIN ds.evaluations |-> ds.evaluations[i].response]

(***************************************************************************)
(* Properties of the persisted knowledge base  (specification SpecRag).    *)
(***************************************************************************)
\* exactly one of the two paired artifacts is in the directory
OneArtifactMissing == kb.index_file.present # kb.record_file.present

\* C19: load_index over a directory in which one of the two paired
\* artifacts is missing ends with an error; it never returns normally.
\* (The directory is as load_index found it: load_index writes no file.)
C19_UnpairedLoadFails ==
    (kb.last.op = "load_index" /\ OneArtifactMissing) =>
        kb.last.outcome # "returned"

(***************************************************************************)
(* Properties of the reflection stage  (specification SpecReflect).        *)
(***************************************************************************)
LengthVerdicts == {"May be too brief", "Appropriate length", "May be too lengthy"}

\* C21: the reflection on a response of n words carries exactly one length
\* verdict: too brief for n < 50, appropriate for 50 <= n <= 200, too
\* lengthy for n > 200.
C21_LengthBands ==
    rs.pc = "reflected" =>
        LET n == Len(rs.response)
            verdicts == { rs.reflection[i] : i \in DOMAIN rs.reflection }
                        \cap LengthVerdicts
        IN verdicts = { IF n < 50 THEN "May be too brief"
                        ELSE IF n <= 200 THEN "Appropriate length"
                        ELSE "May be too lengthy" }

(***************************************************************************)
(* Properties of the observational stages  (specification SpecObserve).    *)
(***************************************************************************)
IsLaterPrompt(p) ==
    p.call \in {"initial_response", "self_critique", "refined_response"}

IsCoreStep(st) == st.step \notin {"situation_analysis", "reflection"}

\* C22: two runs of reason() on the same query and context, with the same
\* generation capability, by agents that differ only in chain_of_thought and
\* reflection_enabled, return the same final response and send the same
\* prompts for the initial response, the critique and the refinement; their
\* traces differ only in the situation_analysis and reflection entries.
C22_Observational ==
    rs.pc = "observe" =>
        \A i, j \in DOMAIN rs.runs :
           ( /\ rs.runs[i].agentic.enabled = rs.runs[j].agentic.enabled
             /\ rs.runs[i].agentic.self_critique_enabled
                  = rs.runs[j].agentic.self_critique_enabled ) =>
              /\ rs.runs[i].result.final = rs.runs[j].result.final
              /\ SelectSeq(rs.runs[i].result.prompts, IsLaterPrompt)
                   = SelectSeq(rs.runs[j].result.prompts, IsLaterPrompt)
              /\ SelectSeq(rs.runs[i].result.steps, IsCoreStep)
                   = SelectSeq(rs.runs[j].result.steps, IsCoreStep)

\* a run with both stages and a run with neither, the response refined
C22_Witness ==
    /\ rs.pc = "observe"
    /\ Len(rs.runs) = 2
    /\ rs.runs[1].agentic.chain_of_thought
    /\ rs.runs[1].agentic.reflection_enabled
    /\ ~rs.runs[2].agentic.chain_of_thought
    /\ ~rs.runs[2].agentic.reflection_enabled
    /\ Len(rs.runs[1].result.steps) = Len(rs.runs[2].result.steps) + 2
    /\ rs.runs[2].result.final = <<"I", "understand,", "you", "could", "rest">>

(***************************************************************************)
(* reason() without a model  (specification SpecReason).                   *)
(***************************************************************************)
\* the step names of a run without a model, by the agent's configuration
FallbackTrace ==
    (IF config.agentic.chain_of_thought THEN <<"situation_analysis">> ELSE <<>>)
    \o <<"needs_assessment", "initial_response">>
    \o (IF config.agentic.self_critique_enabled THEN <<"self_critique">> ELSE <<>>)
    \o (IF config.agentic.reflection_enabled THEN <<"reflection">> ELSE <<>>)

\* C23: with no model attached and agentic reasoning enabled, every trace
\* entry of a model-calling stage holds that stage's fixed fallback string,
\* there is never a refined_response entry, and a finished run has the
\* complete trace of its configuration, made no model call, and returns the
\* initial-response fallback as the final response.
C23_NoModelFallbacks ==
    (rs.pc \in {"situation_analysis", "needs_assessment", "initial_response",
                "self_critique", "refined_response", "reflection", "done"}
       /\ ~rs.model /\ config.agentic.enabled) =>
        /\ \A i \in DOMAIN rs.steps :
              /\ rs.steps[i].step = "situation_analysis" =>
                    rs.steps[i].content = AnalysisFallback
              /\ rs.steps[i].step = "initial_response" =>
                    rs.steps[i].content = ResponseFallback
              /\ rs.steps[i].step = "self_critique" =>
                    rs.steps[i].content = CritiqueFallback
              /\ rs.steps[i].step # "refined_response"
        /\ rs.pc # "refined_response"
        /\ rs.gen_calls = 0
        /\ rs.pc = "done" =>
              /\ [i \in DOMAIN rs.steps |-> rs.steps[i].step] = FallbackTrace
              /\ rs.final = ResponseFallback
              /\ rs.reasoning_used

\* a finished run without a model, every stage switched on
C23_Witness ==
    /\ rs.pc = "done"
    /\ ~rs.model
    /\ config.agentic.enabled
    /\ config.agentic.chain_of_thought
    /\ config.agentic.self_critique_enabled
    /\ config.agentic.reflection_enabled
    /\ Len(rs.steps) = 5
    /\ rs.steps[4].content = CritiqueFallback
    /\ rs.final = ResponseFallback

(***************************************************************************)
(* Properties of chunking  (specification SpecChunk).                      *)
(***************************************************************************)
\* C24: a chunk_text call on a configuration whose stride chunk_size -
\* chunk_overlap is below 1 is rejected and returns no chunk list; on any
\* other configuration it returns the windows that start at words 0, stride,
\* 2*stride, ..., each of at most chunk_size consecutive words, which
\* together hold every word of the document.
C24_ChunkingValidated ==
    kb.pc = "chunked" =>
        LET chunk_size == config.retrieval.chunk_size
            stride == chunk_size - config.retrieval.chunk_overlap
            chunks == kb.out.chunks
        IN IF stride < 1
           THEN kb.out.raised
           ELSE /\ ~kb.out.raised
                /\ \A k \in DOMAIN chunks :
                      /\ Len(chunks[k]) \in 1..chunk_size
                      /\ chunks[k] = SubSeq(kb.text, (k - 1) * stride + 1,
                                            (k - 1) * stride + Len(chunks[k]))
                /\ \A w \in DOMAIN kb.text :
                      \E k \in DOMAIN chunks :
                         w \in ((k - 1) * stride + 1)
                                ..((k - 1) * stride + Len(chunks[k]))

(***************************************************************************)
(* Failures of the external capabilities  (specification Spec).            *)
(***************************************************************************)
\* C25: a turn ends in an exception only when the generation call for the
\* final response failed (or the model was never loaded); a failing
\* retrieval or toxicity call is replaced by its fallback and the turn goes
\* on through the remaining stages to a result.
C25_OnlyGenerationAborts ==
    result.kind = "raised" => result.error \in {"generate", "RuntimeError"}

(***************************************************************************)
(* The empathy sub-score  (specification SpecEval).                        *)
(***************************************************************************)
\* C26: a response with no empathy indicator and no emotion word gets an
\* empathy score strictly below 0.5, and a response with at least two
\* empathy-indicator hits and no judgmental phrase gets a score above 0.6.
C26_EmpathySeparates ==
    (ev.op = "evaluate_response" /\ "empathy" \in config.evaluation.metrics) =>
        LET response_lower == Lower(ev.turns[1].response)
            empathy_count == Hits(response_lower, empathy_indicators)
        IN /\ (empathy_count = 0 /\ ~ContainsAny(response_lower, emotion_words))
                 => ev.out.empathy < 500
           /\ (empathy_count >= 2 /\ ~ContainsAny(response_lower, judgmental))
                 => ev.out.empathy > 600

(***************************************************************************)
(* The three parallel collections of the knowledge base                    *)
(* (specification SpecRag).                                                 *)
(***************************************************************************)
\* C27: after every add_documents, save_index and load_index call, also one
\* that ended in an error, the index holds as many vectors as there are
\* chunks and as there are metadata records.
C27_ParallelCollections ==
    /\ Len(kb.index.vectors) = Len(kb.documents)
    /\ Len(kb.documents) = Len(kb.metadata)

(***************************************************************************)
(* retrieve beside add_documents  (specification SpecInterleave).          *)
(***************************************************************************)
\* C28: a retrieve call that runs while add_documents is between its
\* writes never fails with an out-of-range access, and every text it
\* returns is the chunk stored at the position the index reported, a
\* position of a stored vector; an id with no stored chunk is never in the
\* result.
C28_InterleavedRetrieve ==
    /\ ~kb.ret.raised
    /\ \A k \in DOMAIN kb.ret.results :
          LET r == kb.ret.results[k] IN
          /\ r.idx \in 0..(Len(kb.documents) - 1)
          /\ r.text = kb.documents[r.idx + 1]
          /\ r.text = kb.index.vectors[r.idx + 1]

(***************************************************************************)
(* The safety signals at the evaluation stage  (specification Spec).       *)
(***************************************************************************)
\* C30: in every turn that reached the evaluation stage the merged safety
\* signals given to the evaluator do not carry crisis_detected = true, and
\* the safety sub-score is the one computed without the crisis deduction.
C30_NoCrisisAtEvaluation ==
    turn.evaluated =>
        LET safety_details == turn.eval_context.safety_details IN
        /\ Get(safety_details, "crisis_detected", FALSE) # TRUE
        /\ safety_raw(turn.response, EvalContext(safety_details))
             = safety_raw(turn.response,
                          EvalContext(Put(safety_details, "crisis_detected", FALSE)))

\* an evaluated turn whose input gate looked for a crisis and found none,
\* with a response that names no crisis resource
C30_Witness ==
    /\ turn.evaluated
    /\ config.safety.enabled
    /\ config.safety.crisis_detection
    /\ Get(turn.eval_context.safety_details, "crisis_detected", TRUE) = FALSE
    /\ ~Contains(turn.response, <<"988">>)
    /\ ~Contains(Lower(turn.response), <<"crisis">>)
    /\ pc = "idle"
    /\ result.kind = "returned"

(***************************************************************************)
(* What batch_evaluate is given  (specification SpecDatasetTox).           *)
(***************************************************************************)
\* pipeline.py 145-153: the evaluation generate_response computed for the
\* turn recorded as e, from the merged safety signals of that turn
OwnEvaluation(e) ==
    evaluate_response(e.query, e.response, EvalContext(e.context.safety_checks))

\* C29: the scores batch_evaluate aggregates for the examples of
\* evaluate_dataset are the evaluations of the turns themselves: for every
\* metric the batch's sum, minimum and maximum are those of the turns' own
\* scores, so for one example the mean is the turn's own score, also when
\* the output gate recorded a toxicity score above 0.5.
C29_BatchEqualsOwn ==
    (ds.pc \in {"regenerate", "return"}) =>
        \A metric \in BatchMetrics :
           LET own == [i \in DOMAIN ds.evaluations |->
                          OwnEvaluation(ds.evaluations[i])[metric]]
           IN ds.eval_stats[metric] = StatsOf(own)

====
